---- MODULE Spec2Model ----
(***************************************************************************)
(* A model of the photo search backend: the location clusterer            *)
(* (GeocodingService.clusterPhotosByLocation and the /clusters route),    *)
(* the timeline aggregation (the /timeline route) and the query parser    *)
(* (parseNaturalQuery and the search route that builds the store filter).  *)
(* The photo routes (upload, batch upload, list, get and delete, with the  *)
(* background analysis of uploaded photos) and the frontend's auth store  *)
(* are modelled as well.                                                  *)
(*                                                                         *)
(* Numbers.  JavaScript numbers are modelled in fixed point:              *)
(*   - coordinates are integers in thousandths of a degree,               *)
(*   - angles in radians are integers in millionths of a radian,          *)
(*   - kilometres (distances, radiusKm) are integers in millionths of a   *)
(*     kilometre, so that radiusKm = 1 is the integer Scale,              *)
(*   - NaN is a number value of its own (see Num, NaN).                   *)
(* null and undefined are the empty sequence, a present value v is <<v>>. *)
(* A text (a JavaScript string) is a sequence of characters.               *)
(* Instants (Date values) are whole hours since 1970-01-01T00:00Z.        *)
(***************************************************************************)
EXTENDS Integers, Sequences, FiniteSets, TLC

\* ------------------------------------------------------------------ bounds

\* Longest photo list handed to the clusterer or held by the photo table.
MaxPhotos == 3

\* Most files that reach the storage service in a run of the photo routes.
MaxUploads == 2

\* Most DELETE requests in flight at a time.
MaxInFlight == 2

\* ------------------------------------------------------- values and numbers

Null == <<>>
Undefined == <<>>
Some(x) == <<x>>
IsSome(o) == Len(o) = 1
Val(o) == o[1]

\* One kilometre, one radian (from micro-radians), one degree (from
\* milli-degrees) in the fixed-point representation.
Scale == 1000 * 1000

Num(v) == [nan |-> FALSE, val |-> v]
NaN == [nan |-> TRUE, val |-> 0]

\* JavaScript truthiness of a number: 0 and NaN are falsy.
Truthy(n) == ~n.nan /\ n.val # 0

\* a + k for a number a and a whole k: NaN stays NaN.
Plus(a, k) == IF a.nan THEN NaN ELSE Num(a.val + k)

\* a <= b for a finite number a and a number b; false when b is NaN.
LessEq(a, b) == ~b.nan /\ a <= b.val

Abs(x) == IF x < 0 THEN -x ELSE x

\* Then(value): the value is worked out once and handed on.
With(value, Then(_)) == CHOOSE r \in {Then(v) : v \in {value}} : TRUE

Range(s) == {s[i] : i \in 1..Len(s)}

IsDigit(c) == c \in {"0", "1", "2", "3", "4", "5", "6", "7", "8", "9"}

DigitVal(c) ==
  CASE c = "0" -> 0 [] c = "1" -> 1 [] c = "2" -> 2 [] c = "3" -> 3
    [] c = "4" -> 4 [] c = "5" -> 5 [] c = "6" -> 6 [] c = "7" -> 7
    [] c = "8" -> 8 [] c = "9" -> 9

\* The largest k with k * k <= n, by bisection: Math.sqrt, rounded down.
RECURSIVE SqrtBetween(_, _, _)
SqrtBetween(n, lo, hi) ==
  IF hi - lo <= 1 THEN lo
  ELSE LET mid == (lo + hi) \div 2
       IN IF mid * mid <= n THEN SqrtBetween(n, mid, hi)
          ELSE SqrtBetween(n, lo, mid)

Sqrt(n) == SqrtBetween(n, 0, n + 1)

\* -------------------------------------------------------------- geodesy

\* Math.PI / 180 in millionths: 0.017453 radians per degree.
PiOver180 == 17453

\* toRad: milli-degrees to micro-radians, rounded towards zero.
toRad(degrees) ==
  IF degrees < 0 THEN -((-degrees * PiOver180) \div 1000)
  ELSE (degrees * PiOver180) \div 1000

\* Earth's radius in kilometres.
R == 6371

\* Math.sin of a small angle (micro-radians in, micro-radians out): the
\* coordinates of the model lie within a few hundredths of a degree of each
\* other, where sin x = x to the model's precision.
Sin(x) == x

\* Math.cos of a small angle, in thousandths: 1 - x^2 / 2.
Cos(x) == 1000 - (x * x) \div 2000000000

\* 2 * Math.atan2(Math.sqrt(a), Math.sqrt(1 - a)) for a = aTimes4 / 4 small:
\* atan2(s, sqrt(1 - s^2)) = asin(s) = s to the model's precision, so that
\* c = 2 * sqrt(a) = sqrt(4 * a), in micro-radians.
TwoAtan2(aTimes4) == Sqrt(aTimes4)

\* calculateDistance: the haversine distance of two points, in millionths of
\* a kilometre.  aTimes4 is 4 * a, with sin(d / 2)^2 = Sin(d)^2 / 4.
calculateDistanceFromSelf(lat1, lon1, lat2, lon2) ==
  LET dLat == toRad(lat1 - lat1)
      dLon == toRad(lon1 - lon1)
      aTimes4 == Sin(dLat) * Sin(dLat)
                 + (((Cos(toRad(lat1)) * Cos(toRad(lat2))) \div 1000)
                    * (Sin(dLon) * Sin(dLon))) \div 1000
      c == TwoAtan2(aTimes4)
  IN R * c

calculateDistance(lat1, lon1, lat2, lon2) ==
  LET dLat == toRad(lat2 - lat1)
      dLon == toRad(lon2 - lon1)
      aTimes4 == Sin(dLat) * Sin(dLat)
                 + (((Cos(toRad(lat1)) * Cos(toRad(lat2))) \div 1000)
                    * (Sin(dLon) * Sin(dLon))) \div 1000
      c == TwoAtan2(aTimes4)
  IN R * c

\* ------------------------------------------------------------ the clusterer

\* radiusKm: number = 1
DefaultRadiusKm == 1 * Scale

\* used.add(id)
MarkUsedDropped(used, id) == used

MarkUsed(used, id) == used \cup {id}

\* The distance the inner loop tests: from the seed `photo` of the cluster
\* being built to the candidate `otherPhoto`.
DistanceToLastMember(photo, cluster, otherPhoto) ==
  calculateDistance(Val(cluster[Len(cluster)].latitude),
                    Val(cluster[Len(cluster)].longitude),
                    Val(otherPhoto.latitude), Val(otherPhoto.longitude))

DistanceToSeed(photo, cluster, otherPhoto) ==
  calculateDistance(Val(photo.latitude), Val(photo.longitude),
                    Val(otherPhoto.latitude), Val(otherPhoto.longitude))

\* if (distance <= radiusKm)
WithinRadiusStrict(distance, radiusKm) ==
  ~radiusKm.nan /\ distance < radiusKm.val

WithinRadius(distance, radiusKm) == LessEq(distance, radiusKm)

\* The inner loop, from index j on: acc is [cluster, used].
RECURSIVE FindNearbyUntilFar(_, _, _, _, _)
FindNearbyUntilFar(photos, photo, radiusKm, j, acc) ==
  IF j > Len(photos) THEN acc
  ELSE LET otherPhoto == photos[j]
       IN IF otherPhoto.id \in acc.used
          THEN FindNearbyUntilFar(photos, photo, radiusKm, j + 1, acc)
          ELSE IF WithinRadius(DistanceToSeed(photo, acc.cluster, otherPhoto),
                               radiusKm)
               THEN With([cluster |-> Append(acc.cluster, otherPhoto),
                          used |-> MarkUsed(acc.used, otherPhoto.id)],
                         LAMBDA next :
                           FindNearbyUntilFar(photos, photo, radiusKm, j + 1,
                                              next))
               ELSE acc

RECURSIVE FindNearby(_, _, _, _, _)
FindNearby(photos, photo, radiusKm, j, acc) ==
  IF j > Len(photos) THEN acc
  ELSE LET otherPhoto == photos[j]
       IN IF otherPhoto.id \in acc.used
          THEN FindNearby(photos, photo, radiusKm, j + 1, acc)
          ELSE IF WithinRadius(DistanceToSeed(photo, acc.cluster, otherPhoto),
                               radiusKm)
               THEN With([cluster |-> Append(acc.cluster, otherPhoto),
                          used |-> MarkUsed(acc.used, otherPhoto.id)],
                         LAMBDA next :
                           FindNearby(photos, photo, radiusKm, j + 1, next))
               ELSE FindNearby(photos, photo, radiusKm, j + 1, acc)

\* The outer loop, from index i on: acc is [clusters, used].
RECURSIVE ClusterFrom(_, _, _, _)
ClusterFrom(photos, radiusKm, i, acc) ==
  IF i > Len(photos) THEN acc
  ELSE LET photo == photos[i]
       IN IF photo.id \in acc.used
          THEN ClusterFrom(photos, radiusKm, i + 1, acc)
          ELSE With(FindNearby(photos, photo, radiusKm, 1,
                               [cluster |-> <<photo>>,
                                used |-> MarkUsed(acc.used, photo.id)]),
                    LAMBDA found :
                      ClusterFrom(photos, radiusKm, i + 1,
                        [clusters |-> Append(acc.clusters, found.cluster),
                         used |-> found.used]))

\* The radius the clusterer works with: the default when none is passed.
EffectiveRadius(radiusArg) ==
  IF IsSome(radiusArg) THEN Val(radiusArg) ELSE Num(DefaultRadiusKm)

\* clusterPhotosByLocation(photos, radiusKm): the clusters in the order the
\* outer loop pushed them.
clusterPhotosLatestFirst(photos, radiusArg) ==
  With(ClusterFrom(photos, EffectiveRadius(radiusArg), 1,
                   [clusters |-> <<>>, used |-> {}]).clusters,
       LAMBDA found : [c \in 1..Len(found) |-> found[Len(found) + 1 - c]])

clusterPhotosByLocation(photos, radiusArg) ==
  ClusterFrom(photos, EffectiveRadius(radiusArg), 1,
              [clusters |-> <<>>, used |-> {}]).clusters

\* ------------------------------------------------------------ parseFloat

\* The index after the run of digits of s that starts at index i.
RECURSIVE DigitsEnd(_, _)
DigitsEnd(s, i) ==
  IF i <= Len(s) /\ IsDigit(s[i]) THEN DigitsEnd(s, i + 1) ELSE i

\* The value of the digits s[i..j-1] as a whole number.
RECURSIVE WholeValue(_, _, _, _)
WholeValue(s, i, j, acc) ==
  IF i >= j THEN acc ELSE WholeValue(s, i + 1, j, acc * 10 + DigitVal(s[i]))

\* The value of the digits s[i..j-1] as a fraction, in millionths: the digit
\* at i weighs `weight`, the next a tenth of it.
RECURSIVE FractionValue(_, _, _, _)
FractionValue(s, i, j, weight) ==
  IF i >= j \/ weight = 0 THEN 0
  ELSE DigitVal(s[i]) * weight + FractionValue(s, i + 1, j, weight \div 10)

\* The index of the first non-blank character of s from i on.
RECURSIVE SkipBlanks(_, _)
SkipBlanks(s, i) ==
  IF i <= Len(s) /\ s[i] = " " THEN SkipBlanks(s, i + 1) ELSE i

\* parseFloat(text): leading blanks, an optional sign, digits, an optional
\* point and digits; whatever follows is ignored; NaN when no digit is read.
\* An absent parameter is parseFloat(undefined), which is NaN.  (Exponents
\* and "Infinity" are not modelled: no input of the model contains them.)
parseFloat(text) ==
  IF ~IsSome(text) THEN NaN
  ELSE LET s == Val(text)
           b == SkipBlanks(s, 1)
           signed == b <= Len(s) /\ s[b] \in {"-", "+"}
           negative == signed /\ s[b] = "-"
           i == IF signed THEN b + 1 ELSE b
           j == DigitsEnd(s, i)
           point == j <= Len(s) /\ s[j] = "."
           k == IF point THEN DigitsEnd(s, j + 1) ELSE j
           digits == (j - i) + (IF point THEN k - (j + 1) ELSE 0)
           magnitude == WholeValue(s, i, j, 0) * Scale
                        + (IF point THEN FractionValue(s, j + 1, k, Scale \div 10)
                           ELSE 0)
       IN IF digits = 0 THEN NaN
          ELSE Num(IF negative THEN -magnitude ELSE magnitude)

\* a || b on numbers: b when a is falsy (0 or NaN).
OrElseKeepZero(a, b) == IF a.nan THEN b ELSE a

OrElse(a, b) == IF Truthy(a) THEN a ELSE b

\* const radiusKm = parseFloat(req.query.radius as string) || 1;
RouteRadius(radiusParam) == OrElse(parseFloat(radiusParam), Num(1 * Scale))

\* ------------------------------------------------------------ Date values

\* The day number (days since 1970-01-01) of the civil date y-m-d.
DaysFromCivil(y, m, d) ==
  LET yy == IF m <= 2 THEN y - 1 ELSE y
      era == yy \div 400
      yoe == yy - era * 400
      doy == (153 * (IF m > 2 THEN m - 3 ELSE m + 9) + 2) \div 5 + d - 1
      doe == yoe * 365 + yoe \div 4 - yoe \div 100 + doy
  IN era * 146097 + doe - 719468

\* The civil date of a day number.
CivilFromDays(days) ==
  LET z == days + 719468
      era == z \div 146097
      doe == z - era * 146097
      yoe == (doe - doe \div 1460 + doe \div 36524 - doe \div 146096) \div 365
      doy == doe - (365 * yoe + yoe \div 4 - yoe \div 100)
      mp == (5 * doy + 2) \div 153
      d == doy - (153 * mp + 2) \div 5 + 1
      m == IF mp < 10 THEN mp + 3 ELSE mp - 9
  IN [year |-> yoe + era * 400 + (IF m <= 2 THEN 1 ELSE 0),
      month |-> m, day |-> d]

\* The instant of hour h of the civil date y-m-d in UTC.
UtcInstant(y, m, d, h) == DaysFromCivil(y, m, d) * 24 + h

\* new Date(year, monthIndex, day): midnight of that day in local time (zone
\* is the local offset from UTC in hours).  A year from 0 to 99 means
\* 1900 + year; a monthIndex beyond 11 runs into the next year; a NaN year
\* gives an invalid Date (Null).
DateOf(year, monthIndex, day, zone) ==
  IF year.nan THEN Null
  ELSE LET y == IF year.val >= 0 /\ year.val <= 99 THEN 1900 + year.val
                ELSE year.val
       IN Some(DaysFromCivil(y + monthIndex \div 12, (monthIndex % 12) + 1, day)
                 * 24 - zone)

\* date.getMonth() and date.getFullYear(): the fields of the local time.
getUTCMonth(instant, zone) == CivilFromDays(instant \div 24).month - 1

getMonth(instant, zone) == CivilFromDays((instant + zone) \div 24).month - 1

getFullYear(instant, zone) == CivilFromDays((instant + zone) \div 24).year

\* date.toISOString(): the UTC fields of the instant, <<year, month, day,
\* hour>> for the text YYYY-MM-DDTHH:00:00.000Z.
toISOString(instant) ==
  LET civil == CivilFromDays(instant \div 24)
  IN <<civil.year, civil.month, civil.day, instant % 24>>

\* -------------------------------------------------------------- parseInt

\* parseInt(text): leading blanks, an optional sign, decimal digits; NaN
\* when no digit is read or the text is undefined.  (Hexadecimal text is not
\* modelled.)
parseInt(text) ==
  IF ~IsSome(text) THEN NaN ELSE
  LET s == Val(text)
      b == SkipBlanks(s, 1)
      signed == b <= Len(s) /\ s[b] \in {"-", "+"}
      i == IF signed THEN b + 1 ELSE b
      j == DigitsEnd(s, i)
      magnitude == WholeValue(s, i, j, 0)
  IN IF j = i THEN NaN
     ELSE Num(IF signed /\ s[b] = "-" THEN -magnitude ELSE magnitude)

\* ------------------------------------------------------------------- texts

\* A text (a JavaScript string) is a sequence of characters.
UpperCase ==
  <<"A", "B", "C", "D", "E", "F", "G", "H", "I", "J", "K", "L", "M", "N", "O", "P", "Q", "R", "S", "T", "U", "V", "W", "X", "Y", "Z">>

LowerCase ==
  <<"a", "b", "c", "d", "e", "f", "g", "h", "i", "j", "k", "l", "m", "n", "o", "p", "q", "r", "s", "t", "u", "v", "w", "x", "y", "z">>

\* One character of text.toLowerCase().
LowerOf(c) ==
  IF \E k \in 1..26 : UpperCase[k] = c
  THEN LowerCase[CHOOSE k \in 1..26 : UpperCase[k] = c]
  ELSE c

toLowerCase(text) == [i \in 1..Len(text) |-> LowerOf(text[i])]

\* \w and \s of a regular expression.
IsWordChar(c) ==
  c \in Range(UpperCase) \cup Range(LowerCase) \/ IsDigit(c) \/ c = "_"

IsSpace(c) == c \in {" ", "\t"}

\* The least element of a non-empty set of integers.
Least(S) == CHOOSE x \in S : \A y \in S : x <= y

\* The text w stands in text at index i.
StartsAt(text, i, w) ==
  /\ i + Len(w) - 1 <= Len(text)
  /\ \A k \in 1..Len(w) : text[i + k - 1] = w[k]

\* The same under the regular expression flag i.
StartsAtIgnoringCase(text, i, w) ==
  /\ i + Len(w) - 1 <= Len(text)
  /\ \A k \in 1..Len(w) : LowerOf(text[i + k - 1]) = LowerOf(w[k])

\* text.includes(w)
includes(text, w) == \E i \in 1..(Len(text) + 1) : StartsAt(text, i, w)

\* text.trim()
trim(text) ==
  LET inked == {i \in 1..Len(text) : ~IsSpace(text[i])}
  IN IF inked = {} THEN <<>>
     ELSE SubSeq(text, Least(inked), -Least({-i : i \in inked}))

\* \b at index i of text: between text[i - 1] and text[i], one is a word
\* character and the other is not (the ends of the text count as not).
WordBoundary(text, i) ==
  (i > 1 /\ i - 1 <= Len(text) /\ IsWordChar(text[i - 1]))
    # (i >= 1 /\ i <= Len(text) /\ IsWordChar(text[i]))

\* text.replace(new RegExp(w, 'gi'), '') for a w of word characters and
\* blanks: every occurrence of w, read from the left, is taken out.
RECURSIVE RemoveAll(_, _, _)
RemoveAll(text, w, i) ==
  IF i > Len(text) THEN <<>>
  ELSE IF Len(w) > 0 /\ StartsAtIgnoringCase(text, i, w)
       THEN RemoveAll(text, w, i + Len(w))
       ELSE <<text[i]>> \o RemoveAll(text, w, i + 1)

\* text.replace(/\s+/g, ' '): every run of blanks becomes one space.
RECURSIVE CollapseBlanks(_, _)
CollapseBlanks(text, i) ==
  IF i > Len(text) THEN <<>>
  ELSE IF IsSpace(text[i])
       THEN IF i > 1 /\ IsSpace(text[i - 1]) THEN CollapseBlanks(text, i + 1)
            ELSE <<" ">> \o CollapseBlanks(text, i + 1)
       ELSE <<text[i]>> \o CollapseBlanks(text, i + 1)

\* The names of places the photos carry.
Paris == <<"P", "a", "r", "i", "s">>
France == <<"F", "r", "a", "n", "c", "e">>
Rome == <<"R", "o", "m", "e">>
Italy == <<"I", "t", "a", "l", "y">>
Lima == <<"L", "i", "m", "a">>
Peru == <<"P", "e", "r", "u">>
Oslo == <<"O", "s", "l", "o">>
Norway == <<"N", "o", "r", "w", "a", "y">>
Cairo == <<"C", "a", "i", "r", "o">>
Egypt == <<"E", "g", "y", "p", "t">>

\* --------------------------------------------------------------- the data

Photo(id, userId, latitude, longitude, location, country, dateTaken) ==
  [id |-> id, userId |-> userId, latitude |-> latitude,
   longitude |-> longitude, location |-> location, country |-> country,
   dateTaken |-> dateTaken]

Users == {"u1", "u2"}

\* The photos the clusterer is tried on; coordinates in thousandths of a
\* degree.  "a", "b", "c" lie on a line, 8 thousandths of a degree apart
\* (0.885569 km by calculateDistance); "d" lies off that line; "e" belongs
\* to another user; "f" has no coordinates; "a2" carries the id of "a".
ClusterCatalogue ==
  { Photo("a", "u1", Some(0), Some(0), Some(Paris), Some(France), Some(20)),
    Photo("b", "u1", Some(0), Some(8), Null, Null, Some(10)),
    Photo("c", "u1", Some(0), Some(16), Some(<<>>), Some(Italy), Null),
    Photo("d", "u1", Some(6), Some(0), Some(Rome), Some(Italy), Some(30)),
    Photo("e", "u2", Some(0), Some(8), Some(Oslo), Null, Some(15)),
    Photo("f", "u1", Null, Null, Some(Lima), Null, Some(5)),
    Photo("a", "u1", Some(0), Some(16), Null, Null, Null) }

\* The radius arguments of a direct call: none, 0, 1 km, the exact distance
\* between neighbours on the line, 2 km, a negative radius and NaN.
RadiusArgs ==
  { Undefined, Some(Num(0)), Some(Num(1 * Scale)), Some(Num(885569)),
    Some(Num(2 * Scale)), Some(Num(-1 * Scale)), Some(NaN) }

\* The radius query parameters of a /clusters request.
RadiusParams ==
  { Undefined, Some(<<"0">>), Some(<<"1">>), Some(<<"2">>),
    Some(<<"0", ".", "8", "8", "5", "5", "6", "9">>),
    Some(<<"0", ".", "5">>), Some(<<"-", "1">>), Some(<<"2", "k", "m">>),
    Some(<<"f", "a", "r">>) }

\* new Date(): the instants a request may be served at.
Nows == {40}

\* All sequences over S of length at most n.
RECURSIVE SeqsUpTo(_, _)
SeqsUpTo(S, n) ==
  IF n = 0 THEN {<<>>}
  ELSE LET shorter == SeqsUpTo(S, n - 1)
       IN shorter \cup {Append(s, x) : s \in shorter, x \in S}

DistinctIds(list) ==
  \A i, j \in 1..Len(list) : list[i].id = list[j].id => i = j

HasCoordinates(p) == IsSome(p.latitude) /\ IsSome(p.longitude)

\* -------------------------------------------------------------- the state

VARIABLES
  photos,        \* the list a direct call is given / the rows of the photo table
  request,       \* the call or HTTP request served last
  clusterInput,  \* the list that request handed to clusterPhotosByLocation
  radiusPassed,  \* the radius argument it handed to clusterPhotosByLocation
  radiusKm,      \* the value of the clusterer's parameter radiusKm in that call
  clusters,      \* what clusterPhotosByLocation returned to it
  response,      \* the HTTP response of that request
  zone,          \* the server's local time zone: hours ahead of UTC
  timelineInput, \* the list that request handed to the timeline reduce
  timelineYear,  \* the value of `year` in that request
  timelineArray, \* the buckets the timeline aggregation produced for it
  searchFilters, \* the predicate parseNaturalQuery returned to that request
  storeFilter,   \* the `where` filter the search route built from it
  matched,       \* the rows of the table that filter matches
  storage,       \* the keys of the images the bucket holds
  tasks,         \* the background callbacks scheduled and not yet run
  faceRows,      \* the face table: the ids of the photos with a face row
  deleting,      \* the DELETE requests in flight, by handler
  uploads,       \* the number of files the storage service took so far
  authUser,      \* the auth store's `user`
  authToken,     \* the auth store's `token`
  isLoading,     \* the auth store's `isLoading`
  authStorage    \* the item 'auth-storage' of localStorage

clusterVars == <<clusterInput, radiusPassed, radiusKm, clusters>>
timelineVars == <<timelineInput, timelineYear, timelineArray>>
searchVars == <<searchFilters, storeFilter, matched>>

photoVars == <<storage, tasks, faceRows, deleting, uploads>>
authVars == <<authUser, authToken, isLoading, authStorage>>

vars == <<photos, request, response, zone, clusterVars, timelineVars,
          searchVars, photoVars, authVars>>

NoRequest == [kind |-> "none"]
NoResponse == [status |-> 0]

\* The request does not run the timeline reduce, or does not parse a query:
\* the variables that record it are those of a request that did not.
NoTimelineCall ==
  /\ timelineInput' = <<>>
  /\ timelineYear' = Undefined
  /\ timelineArray' = <<>>

NoSearchCall ==
  /\ searchFilters' = Undefined
  /\ storeFilter' = Undefined
  /\ matched' = <<>>

\* A DELETE handler that serves no request.
Idle == [pc |-> "idle", user |-> "", id |-> "", s3Key |-> ""]

\* No file was uploaded, no callback is scheduled and no DELETE request is
\* in flight; the auth store is as created, with nothing persisted.
PhotoRoutesAtRest ==
  /\ storage = {}
  /\ tasks = {}
  /\ faceRows = {}
  /\ deleting = [h \in 1..MaxInFlight |-> Idle]
  /\ uploads = 0

AuthStoreAtRest ==
  /\ authUser = Null
  /\ authToken = Null
  /\ isLoading = FALSE
  /\ authStorage = Undefined

\* ------------------------------------------------------- the /clusters route

\* prisma.photo.findMany({ where: { userId, latitude: { not: null },
\* longitude: { not: null } } }): the rows in table order.
FindLocatedAnyUser(table, userId) == SelectSeq(table, HasCoordinates)

FindLocated(table, userId) ==
  SelectSeq(table, LAMBDA p : p.userId = userId /\ HasCoordinates(p))

\* cluster.map(p => p.dateTaken).filter(d => d).sort(...): the instants of
\* the dated members, ascending.
SortSkipped(s) == s

SortAscending(s) ==
  LET rank(i) == 1 + Cardinality({j \in 1..Len(s) :
                       s[j] < s[i] \/ (s[j] = s[i] /\ j < i)})
  IN [k \in 1..Len(s) |-> s[CHOOSE i \in 1..Len(s) : rank(i) = k]]

ClusterDates(cluster) ==
  LET dated == SelectSeq(cluster, LAMBDA p : IsSome(p.dateTaken))
  IN SortAscending([i \in 1..Len(dated) |-> Val(dated[i].dateTaken)])

\* One element of formattedClusters.
FormatCluster(cluster, index, now) ==
  LET centerPhoto == cluster[1]
      dates == ClusterDates(cluster)
      named == IsSome(centerPhoto.location) /\ Val(centerPhoto.location) # <<>>
  IN [id |-> <<"cluster-", index>>,
      location |-> IF named THEN [text |-> Val(centerPhoto.location)]
                   ELSE [latitude |-> centerPhoto.latitude,
                         longitude |-> centerPhoto.longitude],
      latitude |-> centerPhoto.latitude,
      longitude |-> centerPhoto.longitude,
      photos |-> cluster,
      dateRange |-> [start |-> IF Len(dates) > 0 THEN dates[1] ELSE now,
                     end |-> IF Len(dates) > 0 THEN dates[Len(dates)] ELSE now]]

\* The request returns without calling the clusterer: the variables that
\* record the call are those of a request that made none.
NoClustererCall ==
  /\ clusterInput' = <<>>
  /\ radiusPassed' = Undefined
  /\ radiusKm' = Undefined
  /\ clusters' = <<>>

\* A direct call clusterPhotosByLocation(photos) or
\* clusterPhotosByLocation(photos, radius).  The parameter type asks for a
\* number in latitude and longitude, so the list holds located photos only;
\* ids may repeat.
CallCluster(radiusArg) ==
  /\ \A i \in 1..Len(photos) : HasCoordinates(photos[i])
  /\ request' = [kind |-> "direct", radius |-> radiusArg]
  /\ clusterInput' = photos
  /\ radiusPassed' = radiusArg
  /\ radiusKm' = Some(EffectiveRadius(radiusArg))
  /\ clusters' = clusterPhotosByLocation(photos, radiusArg)
  /\ response' = NoResponse
  /\ UNCHANGED <<photos, zone, photoVars, authVars>>
  /\ NoTimelineCall
  /\ NoSearchCall

\* router.get('/clusters'): user is req.user, radiusParam is req.query.radius.
\* `photos` is the photo table here, whose id is a key (no two rows share
\* one); the rows come back in table order, which is any order.
GetClusters(user, radiusParam, now) ==
  /\ DistinctIds(photos)
  /\ request' = [kind |-> "clusters", user |-> user, radius |-> radiusParam,
                  now |-> now]
  /\ UNCHANGED <<photos, zone, photoVars, authVars>>
  /\ NoTimelineCall
  /\ NoSearchCall
  /\ IF ~IsSome(user)
     THEN /\ response' = [status |-> 401]
          /\ NoClustererCall
     ELSE \E routeRadius \in {RouteRadius(radiusParam)} :
          \E found \in {FindLocated(photos, Val(user))} :
             IF Len(found) = 0
             THEN /\ response' = [status |-> 200, data |-> <<>>]
                  /\ NoClustererCall
             ELSE \E result \in {clusterPhotosByLocation(found,
                                                        Some(routeRadius))} :
                     /\ clusterInput' = found
                     /\ radiusPassed' = Some(routeRadius)
                     /\ radiusKm' = Some(EffectiveRadius(Some(routeRadius)))
                     /\ clusters' = result
                     /\ response' =
                          [status |-> 200,
                           data |-> [i \in 1..Len(result) |->
                                       FormatCluster(result[i], i - 1, now)],
                           totalClusters |-> Len(result),
                           totalPhotos |-> Len(found)]

InitCluster ==
  /\ photos \in SeqsUpTo(ClusterCatalogue, MaxPhotos)
  /\ request = NoRequest
  /\ clusterInput = <<>>
  /\ radiusPassed = Undefined
  /\ radiusKm = Undefined
  /\ clusters = <<>>
  /\ response = NoResponse
  /\ zone = 0
  /\ timelineInput = <<>>
  /\ timelineYear = Undefined
  /\ timelineArray = <<>>
  /\ searchFilters = Undefined
  /\ storeFilter = Undefined
  /\ matched = <<>>
  /\ PhotoRoutesAtRest
  /\ AuthStoreAtRest

NextCluster ==
  \/ \E radiusArg \in RadiusArgs : CallCluster(radiusArg)
  \/ \E user \in {Null} \cup {Some(u) : u \in Users},
        radiusParam \in RadiusParams, now \in Nows :
       GetClusters(user, radiusParam, now)

SpecCluster == InitCluster /\ [][NextCluster]_vars

\* ------------------------------------------------------- the /timeline route

\* The photos the timeline is tried on: three dated in March 2023 (one of
\* them in the last hour of the month in UTC), one in January 2023, one
\* without a date, one two hours before and one a year after 2023-01-01 in
\* UTC, and one of another user.
TimelineCatalogue ==
  { Photo("m1", "u1", Null, Null, Some(Paris), Some(France),
          Some(UtcInstant(2023, 3, 10, 12))),
    Photo("m2", "u1", Null, Null, Some(Paris), Some(France),
          Some(UtcInstant(2023, 3, 20, 9))),
    Photo("m3", "u1", Null, Null, Some(<<>>), Null,
          Some(UtcInstant(2023, 3, 31, 23))),
    Photo("j1", "u1", Null, Null, Some(Rome), Some(Italy),
          Some(UtcInstant(2023, 1, 15, 8))),
    Photo("n1", "u1", Null, Null, Some(Lima), Some(Peru), Null),
    Photo("d1", "u1", Null, Null, Null, Some(<<>>),
          Some(UtcInstant(2022, 12, 31, 22))),
    Photo("y1", "u1", Null, Null, Some(Cairo), Some(Egypt),
          Some(UtcInstant(2024, 1, 1, 0))),
    Photo("o1", "u2", Null, Null, Some(Oslo), Some(Norway),
          Some(UtcInstant(2023, 3, 11, 7))) }

\* The local time zones of the server: UTC and two hours ahead of it.
Zones == {0, 2}

\* The values of `year` the reduce is applied with directly: four-digit
\* years and NaN (what parseInt gives for a text that is no number).
Years == {Num(2023), Num(2024), NaN}

\* The year query parameters of a /timeline request.
YearParams ==
  { Undefined, Some(<<>>), Some(<<"2", "0", "2", "3">>),
    Some(<<"2", "0", "2", "4">>), Some(<<"l", "a", "s", "t">>) }

\* The instants a /timeline request may be served at.
TimelineNows == {UtcInstant(2023, 6, 1, 12)}

\* The index of the bucket of acc with key monthKey, 0 when there is none:
\* acc[monthKey].
BucketIndex(acc, monthKey) ==
  IF \E b \in 1..Len(acc) : acc[b].month = monthKey
  THEN CHOOSE b \in 1..Len(acc) : acc[b].month = monthKey
  ELSE 0

\* acc[monthKey] = {...}: a new key of the object comes after the keys it
\* has (the keys are ISO date texts, not array indexes).
InsertBucketByKey(acc, bucket) ==
  LET before == SelectSeq(acc, LAMBDA b :
                   \E i \in 1..4 :
                     /\ b.month[i] < bucket.month[i]
                     /\ \A j \in 1..(i - 1) : b.month[j] = bucket.month[j])
      after == SelectSeq(acc, LAMBDA b :
                   ~\E i \in 1..4 :
                     /\ b.month[i] < bucket.month[i]
                     /\ \A j \in 1..(i - 1) : b.month[j] = bucket.month[j])
  IN before \o <<bucket>> \o after

InsertBucket(acc, bucket) == Append(acc, bucket)

\* if (label) set.add(label): a Set keeps one copy of a value, in the order
\* of the first add; null and the empty text are not added.
AddLabelUnchecked(labels, label) ==
  IF IsSome(label) /\ Val(label) \notin Range(labels)
  THEN Append(labels, Val(label))
  ELSE labels

AddLabel(labels, label) ==
  IF IsSome(label) /\ Val(label) # <<>> /\ Val(label) \notin Range(labels)
  THEN Append(labels, Val(label))
  ELSE labels

\* The month of the photo as the reduce reads it.
MonthOfUTC(photo, localZone) == getUTCMonth(Val(photo.dateTaken), localZone)

MonthOf(photo, localZone) == getMonth(Val(photo.dateTaken), localZone)

\* One call of the reduce callback: acc is [threw, buckets]; toISOString of
\* an invalid Date throws a RangeError, which ends the reduce.
ReduceStep(acc, photo, year, localZone) ==
  IF acc.threw \/ ~IsSome(photo.dateTaken) THEN acc
  ELSE LET month == MonthOf(photo, localZone)
           first == DateOf(year, month, 1, localZone)
       IN IF ~IsSome(first) THEN [threw |-> TRUE, buckets |-> acc.buckets]
          ELSE LET monthKey == toISOString(Val(first))
                   opened == IF BucketIndex(acc.buckets, monthKey) = 0
                             THEN InsertBucket(acc.buckets,
                                    [month |-> monthKey, photos |-> <<>>,
                                     locations |-> <<>>, countries |-> <<>>])
                             ELSE acc.buckets
                   b == BucketIndex(opened, monthKey)
               IN [threw |-> FALSE,
                   buckets |->
                     [opened EXCEPT
                        ![b] = [month |-> monthKey,
                                photos |-> Append(opened[b].photos, photo),
                                locations |->
                                  AddLabel(opened[b].locations, photo.location),
                                countries |->
                                  AddLabel(opened[b].countries, photo.country)]]]

\* photos.reduce(callback, {}) from index i on.
RECURSIVE Reduce(_, _, _, _, _)
Reduce(list, year, localZone, i, acc) ==
  IF i > Len(list) THEN acc
  ELSE With(ReduceStep(acc, list[i], year, localZone),
            LAMBDA next : Reduce(list, year, localZone, i + 1, next))

\* photoCount: period.photos.length
PhotoCountOfLabels(period) == Len(period.locations)

PhotoCount(period) == Len(period.photos)

\* Object.values(timeline).map(...): the buckets in key order, each with its
\* label sets as arrays and its photoCount.
FormatTimeline(buckets) ==
  [b \in 1..Len(buckets) |->
     [month |-> buckets[b].month,
      photos |-> buckets[b].photos,
      locations |-> buckets[b].locations,
      countries |-> buckets[b].countries,
      photoCount |-> PhotoCount(buckets[b])]]

\* Lines 249-277: the grouping of a list and its formatting; threw when the
\* reduce raised an error.
Aggregate(list, year, localZone) ==
  LET reduced == Reduce(list, year, localZone, 1,
                        [threw |-> FALSE, buckets |-> <<>>])
  IN [threw |-> reduced.threw,
      data |-> IF reduced.threw THEN <<>> ELSE FormatTimeline(reduced.buckets)]

\* orderBy: { dateTaken: 'asc' } on rows that all have a date: each row at
\* the rank of its date, rows of equal date in table order.
SortByDate(rows) ==
  LET rank(i) == 1 + Cardinality({j \in 1..Len(rows) :
                       \/ Val(rows[j].dateTaken) < Val(rows[i].dateTaken)
                       \/ /\ Val(rows[j].dateTaken) = Val(rows[i].dateTaken)
                          /\ j < i})
  IN [k \in 1..Len(rows) |-> rows[CHOOSE i \in 1..Len(rows) : rank(i) = k]]

\* prisma.photo.findMany({ where: { userId, dateTaken: { gte: startDate,
\* lt: endDate } }, orderBy: { dateTaken: 'asc' } }); a row without a date
\* matches no comparison.
FindInYearNoUpperBound(table, userId, startDate, endDate) ==
  SortByDate(SelectSeq(table, LAMBDA p :
    /\ p.userId = userId
    /\ IsSome(p.dateTaken)
    /\ Val(p.dateTaken) >= startDate))

FindInYear(table, userId, startDate, endDate) ==
  SortByDate(SelectSeq(table, LAMBDA p :
    /\ p.userId = userId
    /\ IsSome(p.dateTaken)
    /\ Val(p.dateTaken) >= startDate
    /\ Val(p.dateTaken) < endDate))

\* const year = req.query.year ? parseInt(req.query.year) : new
\* Date().getFullYear(); an absent or empty parameter is falsy.
RequestYear(yearParam, now, localZone) ==
  IF IsSome(yearParam) /\ Len(Val(yearParam)) > 0
  THEN parseInt(yearParam)
  ELSE Num(getFullYear(now, localZone))

\* The request returns without running the reduce.
NoAggregation ==
  /\ timelineInput' = <<>>
  /\ timelineArray' = <<>>

\* The reduce and the formatting of lines 249-277 applied to the list
\* `photos` with a value of `year`.
CallAggregate(year) ==
  \E result \in {Aggregate(photos, year, zone)} :
     /\ request' = [kind |-> "aggregate", year |-> year]
     /\ timelineInput' = photos
     /\ timelineYear' = Some(year)
     /\ timelineArray' = result.data
     /\ response' = IF result.threw THEN [status |-> 500] ELSE NoResponse
     /\ UNCHANGED <<photos, zone, photoVars, authVars>>
     /\ NoClustererCall
     /\ NoSearchCall

\* router.get('/timeline'): user is req.user, yearParam is req.query.year.
\* `photos` is the photo table here, whose id is a key.
\* An error (the store rejects an invalid Date in the query) goes to
\* next(error), the 500 response.
GetTimeline(user, yearParam, now) ==
  /\ DistinctIds(photos)
  /\ request' = [kind |-> "timeline", user |-> user, year |-> yearParam]
  /\ UNCHANGED <<photos, zone, photoVars, authVars>>
  /\ NoClustererCall
  /\ NoSearchCall
  /\ IF ~IsSome(user)
     THEN /\ response' = [status |-> 401]
          /\ timelineYear' = Undefined
          /\ NoAggregation
     ELSE LET yearAsked == RequestYear(yearParam, now, zone)
              first == DateOf(yearAsked, 0, 1, zone)
              last == DateOf(Plus(yearAsked, 1), 0, 1, zone)
          IN /\ timelineYear' = Some(yearAsked)
             /\ IF ~IsSome(first) \/ ~IsSome(last)
                THEN /\ response' = [status |-> 500]
                     /\ NoAggregation
                ELSE \E found \in {FindInYear(photos, Val(user),
                                             Val(first), Val(last))} :
                     \E result \in {Aggregate(found, yearAsked, zone)} :
                        /\ timelineInput' = found
                        /\ timelineArray' = result.data
                        /\ response' =
                             IF result.threw THEN [status |-> 500]
                             ELSE [status |-> 200, data |-> result.data,
                                   year |-> yearAsked,
                                   totalPhotos |-> Len(found)]

InitTimeline ==
  /\ photos \in SeqsUpTo(TimelineCatalogue, MaxPhotos)
  /\ zone \in Zones
  /\ request = NoRequest
  /\ response = NoResponse
  /\ timelineInput = <<>>
  /\ timelineYear = Undefined
  /\ timelineArray = <<>>
  /\ searchFilters = Undefined
  /\ storeFilter = Undefined
  /\ matched = <<>>
  /\ clusterInput = <<>>
  /\ radiusPassed = Undefined
  /\ radiusKm = Undefined
  /\ clusters = <<>>
  /\ PhotoRoutesAtRest
  /\ AuthStoreAtRest

NextTimeline ==
  \/ \E year \in Years : CallAggregate(year)
  \/ \E user \in {Null} \cup {Some(u) : u \in Users},
        yearParam \in YearParams, now \in TimelineNows :
       GetTimeline(user, yearParam, now)

SpecTimeline == InitTimeline /\ [][NextTimeline]_vars

\* ---------------------------------------------------------- the query parser

\* The predicate parseNaturalQuery builds: a field that was not set is
\* Undefined.  (`people` is the field the search route reads for face
\* groups.)
NoFilters ==
  [dateFrom |-> Undefined, dateTo |-> Undefined, location |-> Undefined,
   peopleQuery |-> Undefined, people |-> Undefined, tags |-> Undefined,
   description |-> Undefined]

\* lowerQuery.match(/\b(20\d{2})\b/): the first 20dd that stands between
\* word boundaries, or Null.
YearAt(text, i) ==
  /\ i + 3 <= Len(text)
  /\ text[i] = "2" /\ text[i + 1] = "0"
  /\ IsDigit(text[i + 2]) /\ IsDigit(text[i + 3])
  /\ WordBoundary(text, i) /\ WordBoundary(text, i + 4)

yearMatch(text) ==
  LET found == {i \in 1..Len(text) : YearAt(text, i)}
  IN IF found = {} THEN Null
     ELSE Some(SubSeq(text, Least(found), Least(found) + 3))

\* The year pass.
YearPass(filters, lowerQuery, localZone) ==
  IF IsSome(yearMatch(lowerQuery))
  THEN LET year == parseInt(yearMatch(lowerQuery))
       IN [filters EXCEPT !.dateFrom = Some(Val(DateOf(year, 0, 1, localZone))),
                          !.dateTo = Some(Val(DateOf(Plus(year, 1), 0, 1,
                                                     localZone)))]
  ELSE filters

monthNames ==
  << <<"j", "a", "n", "u", "a", "r", "y">>, <<"f", "e", "b", "r", "u", "a", "r", "y">>, <<"m", "a", "r", "c", "h">>, <<"a", "p", "r", "i", "l">>, <<"m", "a", "y">>, <<"j", "u", "n", "e">>,
     <<"j", "u", "l", "y">>, <<"a", "u", "g", "u", "s", "t">>, <<"s", "e", "p", "t", "e", "m", "b", "e", "r">>, <<"o", "c", "t", "o", "b", "e", "r">>, <<"n", "o", "v", "e", "m", "b", "e", "r">>,
     <<"d", "e", "c", "e", "m", "b", "e", "r">> >>

\* lowerQuery.match(monthPattern), then monthNames.indexOf(...): the index
\* (from 0) of the month name that stands first in the text, or Null.
monthMatch(text) ==
  LET named(i) == {m \in 1..12 : StartsAtIgnoringCase(text, i, monthNames[m])}
      found == {i \in 1..Len(text) : named(i) # {}}
  IN IF found = {} THEN Null ELSE Some(Least(named(Least(found))) - 1)

\* The month pass.
MonthPassOfCurrentYear(filters, lowerQuery, currentYear, localZone) ==
  IF IsSome(monthMatch(lowerQuery))
  THEN LET monthIndex == Val(monthMatch(lowerQuery))
           year == currentYear
       IN [filters EXCEPT
             !.dateFrom = Some(Val(DateOf(year, monthIndex, 1, localZone))),
             !.dateTo = Some(Val(DateOf(year, monthIndex + 1, 1, localZone)))]
  ELSE filters

MonthPass(filters, lowerQuery, currentYear, localZone) ==
  IF IsSome(monthMatch(lowerQuery))
  THEN LET monthIndex == Val(monthMatch(lowerQuery))
           year == IF IsSome(yearMatch(lowerQuery))
                   THEN parseInt(yearMatch(lowerQuery))
                   ELSE currentYear
       IN [filters EXCEPT
             !.dateFrom = Some(Val(DateOf(year, monthIndex, 1, localZone))),
             !.dateTo = Some(Val(DateOf(year, monthIndex + 1, 1, localZone)))]
  ELSE filters

\* The relative pass.
RelativePassThisYearFirst(filters, lowerQuery, currentYear, localZone) ==
  IF includes(lowerQuery, <<"t", "h", "i", "s", " ", "y", "e", "a", "r">>)
  THEN [filters EXCEPT
          !.dateFrom = Some(Val(DateOf(currentYear, 0, 1, localZone))),
          !.dateTo = Some(Val(DateOf(Plus(currentYear, 1), 0, 1, localZone)))]
  ELSE IF includes(lowerQuery, <<"l", "a", "s", "t", " ", "y", "e", "a", "r">>)
  THEN [filters EXCEPT
          !.dateFrom = Some(Val(DateOf(Plus(currentYear, -1), 0, 1, localZone))),
          !.dateTo = Some(Val(DateOf(currentYear, 0, 1, localZone)))]
  ELSE filters

RelativePass(filters, lowerQuery, currentYear, localZone) ==
  IF includes(lowerQuery, <<"l", "a", "s", "t", " ", "y", "e", "a", "r">>)
  THEN [filters EXCEPT
          !.dateFrom = Some(Val(DateOf(Plus(currentYear, -1), 0, 1, localZone))),
          !.dateTo = Some(Val(DateOf(currentYear, 0, 1, localZone)))]
  ELSE IF includes(lowerQuery, <<"t", "h", "i", "s", " ", "y", "e", "a", "r">>)
  THEN [filters EXCEPT
          !.dateFrom = Some(Val(DateOf(currentYear, 0, 1, localZone))),
          !.dateTo = Some(Val(DateOf(Plus(currentYear, 1), 0, 1, localZone)))]
  ELSE filters

locationWords ==
  << <<"i", "n">>, <<"a", "t">>, <<"f", "r", "o", "m">>, <<"t", "o">>, <<"v", "i", "s", "i", "t">>, <<"t", "r", "i", "p", " ", "t", "o">>,
     <<"v", "a", "c", "a", "t", "i", "o", "n", " ", "i", "n">> >>

\* with|in|on|during
Connectors == << <<"w", "i", "t", "h">>, <<"i", "n">>, <<"o", "n">>, <<"d", "u", "r", "i", "n", "g">> >>

\* The index of the first character of text from i on that is no blank.
RECURSIVE SkipSpaces(_, _)
SkipSpaces(text, i) ==
  IF i <= Len(text) /\ IsSpace(text[i]) THEN SkipSpaces(text, i + 1) ELSE i

\* (?:\s+(?:with|in|on|during)|$) matches at index e: blanks and a
\* connector follow, or the text ends.
GroupEnds(text, e) ==
  \/ e = Len(text) + 1
  \/ \E k \in (e + 1)..Len(text) :
       /\ \A x \in e..(k - 1) : IsSpace(text[x])
       /\ \E c \in 1..Len(Connectors) : StartsAt(text, k, Connectors[c])

\* ([\w\s]+?) may capture text[g..e-1].
Captures(text, g, e) ==
  /\ \A x \in g..(e - 1) : IsWordChar(text[x]) \/ IsSpace(text[x])
  /\ GroupEnds(text, e)

\* The capture of word\s+([\w\s]+?)(?:\s+(?:with|in|on|during)|$) matched
\* from index p, or Null: \s+ takes as many blanks as a match allows, the
\* capture as few characters as a match allows.
CaptureAt(text, word, p) ==
  LET after == p + Len(word)
      blanks == SkipSpaces(text, after) - after
      starts == {g \in (after + 1)..(after + blanks) :
                   \E e \in (g + 1)..(Len(text) + 1) : Captures(text, g, e)}
  IN IF ~StartsAt(text, p, word) \/ starts = {} THEN Null
     ELSE LET g == -Least({-x : x \in starts})
              e == Least({x \in (g + 1)..(Len(text) + 1) :
                            Captures(text, g, x)})
          IN Some(SubSeq(text, g, e - 1))

\* lowerQuery.match(pattern) for one location word: match[1] of the
\* leftmost match, or Null.
locationMatch(text, word) ==
  LET found == {p \in 1..Len(text) : IsSome(CaptureAt(text, word, p))}
  IN IF found = {} THEN Null ELSE CaptureAt(text, word, Least(found))

\* The location pass: the first word of locationWords with a match sets the
\* location and ends the loop.
LocationPass(filters, lowerQuery) ==
  LET matching == {w \in 1..Len(locationWords) :
                     IsSome(locationMatch(lowerQuery, locationWords[w]))}
  IN IF matching = {} THEN filters
     ELSE [filters EXCEPT !.location =
             Some(trim(Val(locationMatch(lowerQuery,
                             locationWords[Least(matching)]))))]

\* The index after the run of word characters of text that starts at i.
RECURSIVE WordEnd(_, _)
WordEnd(text, i) ==
  IF i <= Len(text) /\ IsWordChar(text[i]) THEN WordEnd(text, i + 1) ELSE i

\* lowerQuery.match(/with my\s+(\w+)/i): match[1] of the leftmost match, or
\* Null.
peopleMatch(text) ==
  LET after(p) == p + 7
      word(p) == SkipSpaces(text, after(p))
      found == {p \in 1..Len(text) :
                  /\ StartsAt(text, p, <<"w", "i", "t", "h", " ", "m", "y">>)
                  /\ word(p) > after(p)
                  /\ WordEnd(text, word(p)) > word(p)}
  IN IF found = {} THEN Null
     ELSE Some(SubSeq(text, word(Least(found)),
                      WordEnd(text, word(Least(found))) - 1))

\* The people pass.
PeoplePassAsFaceGroups(filters, lowerQuery) ==
  IF IsSome(peopleMatch(lowerQuery))
  THEN [filters EXCEPT !.people = Some(<<Val(peopleMatch(lowerQuery))>>)]
  ELSE filters

PeoplePass(filters, lowerQuery) ==
  IF IsSome(peopleMatch(lowerQuery))
  THEN [filters EXCEPT !.peopleQuery = peopleMatch(lowerQuery)]
  ELSE filters

commonTags ==
  << <<"b", "e", "a", "c", "h">>, <<"m", "o", "u", "n", "t", "a", "i", "n">>, <<"c", "i", "t", "y">>, <<"r", "e", "s", "t", "a", "u", "r", "a", "n", "t">>, <<"m", "u", "s", "e", "u", "m">>, <<"p", "a", "r", "k">>,
     <<"s", "u", "n", "s", "e", "t">>, <<"s", "u", "n", "r", "i", "s", "e">>, <<"n", "a", "t", "u", "r", "e">>, <<"u", "r", "b", "a", "n">>, <<"f", "o", "o", "d">>, <<"s", "e", "l", "f", "i", "e">>,
     <<"g", "r", "o", "u", "p">>, <<"l", "a", "n", "d", "s", "c", "a", "p", "e">>, <<"a", "r", "c", "h", "i", "t", "e", "c", "t", "u", "r", "e">>, <<"o", "c", "e", "a", "n">>, <<"f", "o", "r", "e", "s", "t">> >>

\* commonTags.filter(tag => lowerQuery.includes(tag))
foundTags(lowerQuery) ==
  SelectSeq(commonTags, LAMBDA tag : includes(lowerQuery, tag))

\* The tag pass.
TagPassKeepsEmpty(filters, lowerQuery) ==
  [filters EXCEPT !.tags = Some(foundTags(lowerQuery))]

TagPass(filters, lowerQuery) ==
  IF Len(foundTags(lowerQuery)) > 0
  THEN [filters EXCEPT !.tags = Some(foundTags(lowerQuery))]
  ELSE filters

\* in|at|from|to|with|my|the|and|or|but
StopWords ==
  << <<"i", "n">>, <<"a", "t">>, <<"f", "r", "o", "m">>, <<"t", "o">>, <<"w", "i", "t", "h">>, <<"m", "y">>, <<"t", "h", "e">>, <<"a", "n", "d">>,
     <<"o", "r">>, <<"b", "u", "t">> >>

\* text.replace(/\b(in|at|from|to|with|my|the|and|or|but)\b/gi, ''): every
\* stop word that stands between word boundaries is taken out.
StopWordAtAnywhere(text, i) ==
  {w \in 1..Len(StopWords) : StartsAtIgnoringCase(text, i, StopWords[w])}

StopWordAt(text, i) ==
  {w \in 1..Len(StopWords) :
     /\ WordBoundary(text, i)
     /\ StartsAtIgnoringCase(text, i, StopWords[w])
     /\ WordBoundary(text, i + Len(StopWords[w]))}

RECURSIVE RemoveStopWords(_, _)
RemoveStopWords(text, i) ==
  IF i > Len(text) THEN <<>>
  ELSE IF StopWordAt(text, i) # {}
       THEN RemoveStopWords(text,
                            i + Len(StopWords[Least(StopWordAt(text, i))]))
       ELSE <<text[i]>> \o RemoveStopWords(text, i + 1)

\* foundTags.forEach(tag => text = text.replace(new RegExp(tag, 'gi'), ''))
\* from the tag at index t on.
RECURSIVE RemoveTags(_, _, _)
RemoveTags(text, tags, t) ==
  IF t > Len(tags) THEN text
  ELSE RemoveTags(RemoveAll(text, tags[t], 1), tags, t + 1)

\* The text that is left of the query for the description search.
descriptionQuery(query, filters, tags) ==
  LET withoutLocation ==
        IF IsSome(filters.location) /\ Val(filters.location) # <<>>
        THEN RemoveAll(query, Val(filters.location), 1)
        ELSE query
      withoutTags == RemoveTags(withoutLocation, tags, 1)
  IN trim(CollapseBlanks(RemoveStopWords(withoutTags, 1), 1))

\* The description pass.
DescriptionPassOfAnyLength(filters, query, lowerQuery) ==
  [filters EXCEPT !.description =
     Some(descriptionQuery(query, filters, foundTags(lowerQuery)))]

DescriptionPass(filters, query, lowerQuery) ==
  With(descriptionQuery(query, filters, foundTags(lowerQuery)),
       LAMBDA text : IF Len(text) > 2
                     THEN [filters EXCEPT !.description = Some(text)]
                     ELSE filters)

\* parseNaturalQuery(query), called at the instant now in the zone
\* localZone.
parseNaturalQuery(query, now, localZone) ==
  With(toLowerCase(query), LAMBDA lowerQuery :
  With(Num(getFullYear(now, localZone)), LAMBDA currentYear :
  With(YearPass(NoFilters, lowerQuery, localZone), LAMBDA dated :
  With(MonthPass(dated, lowerQuery, currentYear, localZone), LAMBDA monthed :
  With(RelativePass(monthed, lowerQuery, currentYear, localZone), LAMBDA timed :
  With(LocationPass(timed, lowerQuery), LAMBDA placed :
  With(PeoplePass(placed, lowerQuery), LAMBDA peopled :
  With(TagPass(peopled, lowerQuery), LAMBDA tagged :
    DescriptionPass(tagged, query, lowerQuery)))))))))

\* --------------------------------------------------------- the search route

\* A row of the photo table with the columns the search reads.
Row(photo, city, tags, aiDescription, faces) ==
  photo @@ [city |-> city, tags |-> tags, aiDescription |-> aiDescription,
            faces |-> faces]

\* The rows the search is tried on: "p1" is dated at the first hour of 2023
\* and "p2" at the first hour of 2024 (in UTC), "p3" has neither date nor
\* place nor description, "p4" belongs to another user.
SearchCatalogue ==
  { Row(Photo("p1", "u1", Some(0), Some(0), Some(Paris), Some(France),
              Some(UtcInstant(2023, 1, 1, 0))),
        Null, << <<"b", "e", "a", "c", "h">> >>, Some(<<"P", "a", "r", "i", "s", " ", "b", "e", "a", "c", "h", " ", "2", "0", "2", "3">>), {"g1"}),
    Row(Photo("p2", "u1", Some(0), Some(8), Some(Rome), Some(Italy),
              Some(UtcInstant(2024, 1, 1, 0))),
        Some(Rome), <<>>, Some(<<"p", "a", "r", "t", "y", " ", "2", "0", "2", "3">>), {}),
    Row(Photo("p3", "u1", Null, Null, Null, Null, Null),
        Null, << <<"s", "u", "n", "s", "e", "t">>, <<"o", "c", "e", "a", "n">> >>, Null, {"mom"}),
    Row(Photo("p4", "u2", Some(0), Some(8), Some(Oslo), Some(Norway),
              Some(UtcInstant(2023, 3, 10, 12))),
        Some(Oslo), << <<"c", "i", "t", "y">> >>, Some(<<"O", "s", "l", "o", " ", "2", "0", "2", "3">>), {}) }

\* The query texts the parser is tried on.
Queries ==
  { <<>>,
    <<"h", "i">>,
    <<"t", "h", "e">>,
    <<"2", "0", "2", "3">>,
    <<"x", "2", "0", "2", "3">>,
    <<"t", "r", "i", "p", " ", "t", "o", " ", "P", "a", "r", "i", "s", " ", "i", "n", " ", "2", "0", "2", "3">>,
    <<"t", "r", "i", "p", " ", "t", "o", " ", "R", "o", "m", "e", " ", "i", "n", " ", "2", "0", "2", "4">>,
    <<"p", "h", "o", "t", "o", "s", " ", "f", "r", "o", "m", " ", "m", "a", "r", "c", "h", " ", "2", "0", "2", "3">>,
    <<"D", "e", "c", "e", "m", "b", "e", "r", " ", "2", "0", "2", "3">>,
    <<"m", "a", "y">>,
    <<"l", "a", "s", "t", " ", "y", "e", "a", "r">>,
    <<"t", "h", "i", "s", " ", "y", "e", "a", "r", " ", "b", "e", "a", "c", "h", " ", "t", "r", "i", "p">>,
    <<"t", "h", "i", "s", " ", "y", "e", "a", "r", " ", "o", "r", " ", "l", "a", "s", "t", " ", "y", "e", "a", "r">>,
    <<"d", "e", "c", "e", "m", "b", "e", "r", " ", "l", "a", "s", "t", " ", "y", "e", "a", "r">>,
    <<"m", "a", "r", "c", "h", " ", "2", "0", "2", "3", " ", "t", "h", "i", "s", " ", "y", "e", "a", "r">>,
    <<"s", "u", "n", "s", "e", "t", " ", "o", "v", "e", "r", " ", "t", "h", "e", " ", "o", "c", "e", "a", "n">>,
    <<"o", "c", "e", "a", "n", " ", "s", "u", "n", "s", "e", "t">>,
    <<"w", "i", "t", "h", " ", "m", "y", " ", "m", "o", "m">>,
    <<"w", "i", "t", "h", " ", "m", "y", " ", "m", "o", "m", " ", "a", "t", " ", "R", "o", "m", "e">>,
    <<"S", "u", "n", "s", "e", "t", " ", "a", "t", " ", "R", "o", "m", "e", " ", "w", "i", "t", "h", " ", "m", "y", " ", "m", "o", "m">>,
    <<"a", "t", " ", "r", "o", "m", "e", ",", " ", "i", "n", " ", "p", "a", "r", "i", "s", " ", "o", "n", " ", "m", "o", "n", "d", "a", "y">>,
    <<"t", "o", " ", "O", "s", "l", "o", " ", "f", "r", "o", "m", " ", "R", "o", "m", "e">>,
    <<"a", "t", " ", "l", "a", "k", "e", " ", "O", "n", "t", "a", "r", "i", "o">>,
    <<"v", "i", "s", "i", "t", " ", "b", "e", "r", "l", "i", "n", " ", "z", "o", "o", " ", "i", "n", " ", "m", "a", "y">>,
    <<"v", "a", "c", "a", "t", "i", "o", "n", " ", "i", "n", " ", " ">>,
    <<"P", "a", "r", "i", "s">>,
    <<"p", "a", "r", "t", "y">> }

\* The requests GET /?q=...&page=...&limit=... the route is tried on: every
\* query text from every user with no paging parameters, and some with them
\* or without a user or a query.
SearchRequests ==
  { [user |-> Some(u), q |-> Some(q), page |-> Undefined, limit |-> Undefined] :
      u \in Users, q \in Queries }
  \cup
  { [user |-> Null, q |-> Some(<<"h", "i">>), page |-> Undefined, limit |-> Undefined],
    [user |-> Some("u1"), q |-> Undefined, page |-> Undefined,
     limit |-> Undefined],
    [user |-> Some("u1"), q |-> Some(<<"h", "i">>), page |-> Some(<<"2">>),
     limit |-> Some(<<"1">>)],
    [user |-> Some("u1"), q |-> Some(<<"h", "i">>), page |-> Some(<<"0">>),
     limit |-> Some(<<"2">>)],
    [user |-> Some("u1"), q |-> Some(<<"2", "0", "2", "3">>), page |-> Some(<<"x">>),
     limit |-> Some(<<"1">>)] }

\* The instants a search request may be served at.
SearchNows == {UtcInstant(2024, 6, 1, 12)}

\* text contains w, with mode: 'insensitive'.
ContainsIgnoringCase(text, w) ==
  \E i \in 1..(Len(text) + 1) : StartsAtIgnoringCase(text, i, w)

\* The `filters` object of the route: a key that was not set is Undefined.
\* OR holds the text the three place columns are searched for.
BuildFiltersWithTags(userId, parsed) ==
  [userId |-> userId,
   dateTaken |-> IF IsSome(parsed.dateFrom) \/ IsSome(parsed.dateTo)
                 THEN Some([gte |-> parsed.dateFrom, lte |-> parsed.dateTo])
                 ELSE Undefined,
   OR |-> IF IsSome(parsed.location) /\ Val(parsed.location) # <<>>
          THEN parsed.location ELSE Undefined,
   tags |-> IF IsSome(parsed.tags) THEN parsed.tags ELSE Some(<<>>),
   aiDescription |-> IF IsSome(parsed.description)
                        /\ Val(parsed.description) # <<>>
                     THEN parsed.description ELSE Undefined,
   faces |-> IF IsSome(parsed.people) /\ Len(Val(parsed.people)) > 0
             THEN parsed.people ELSE Undefined]

BuildFilters(userId, parsed) ==
  [userId |-> userId,
   dateTaken |-> IF IsSome(parsed.dateFrom) \/ IsSome(parsed.dateTo)
                 THEN Some([gte |-> parsed.dateFrom, lte |-> parsed.dateTo])
                 ELSE Undefined,
   OR |-> IF IsSome(parsed.location) /\ Val(parsed.location) # <<>>
          THEN parsed.location ELSE Undefined,
   tags |-> IF IsSome(parsed.tags) /\ Len(Val(parsed.tags)) > 0
            THEN parsed.tags ELSE Undefined,
   aiDescription |-> IF IsSome(parsed.description)
                        /\ Val(parsed.description) # <<>>
                     THEN parsed.description ELSE Undefined,
   faces |-> IF IsSome(parsed.people) /\ Len(Val(parsed.people)) > 0
             THEN parsed.people ELSE Undefined]

\* The row satisfies the `where` filter: every key that is set constrains
\* it; a null column satisfies no comparison and no `contains`.
Matches(row, where) ==
  /\ row.userId = where.userId
  /\ IsSome(where.dateTaken) =>
       /\ IsSome(row.dateTaken)
       /\ IsSome(Val(where.dateTaken).gte) =>
            Val(row.dateTaken) >= Val(Val(where.dateTaken).gte)
       /\ IsSome(Val(where.dateTaken).lte) =>
            Val(row.dateTaken) <= Val(Val(where.dateTaken).lte)
  /\ IsSome(where.OR) =>
       \/ IsSome(row.location)
          /\ ContainsIgnoringCase(Val(row.location), Val(where.OR))
       \/ IsSome(row.country)
          /\ ContainsIgnoringCase(Val(row.country), Val(where.OR))
       \/ IsSome(row.city)
          /\ ContainsIgnoringCase(Val(row.city), Val(where.OR))
  /\ IsSome(where.tags) => Range(row.tags) \cap Range(Val(where.tags)) # {}
  /\ IsSome(where.aiDescription) =>
       /\ IsSome(row.aiDescription)
       /\ ContainsIgnoringCase(Val(row.aiDescription),
                               Val(where.aiDescription))
  /\ IsSome(where.faces) => row.faces \cap Range(Val(where.faces)) # {}

\* orderBy: { dateTaken: 'desc' }: the latest row first, rows without a date
\* before the dated ones (the order of NULL in PostgreSQL), rows of equal
\* date in table order.
SortByDateDescending(rows) ==
  LET before(j, i) ==
        IF IsSome(rows[j].dateTaken) /\ IsSome(rows[i].dateTaken)
        THEN \/ Val(rows[j].dateTaken) > Val(rows[i].dateTaken)
             \/ Val(rows[j].dateTaken) = Val(rows[i].dateTaken) /\ j < i
        ELSE \/ ~IsSome(rows[j].dateTaken) /\ IsSome(rows[i].dateTaken)
             \/ /\ ~IsSome(rows[j].dateTaken)
                /\ ~IsSome(rows[i].dateTaken)
                /\ j < i
      rank(i) == 1 + Cardinality({j \in 1..Len(rows) : before(j, i)})
  IN [k \in 1..Len(rows) |-> rows[CHOOSE i \in 1..Len(rows) : rank(i) = k]]

\* prisma.photo.findMany({ where, orderBy }) without skip and take, whose
\* length is prisma.photo.count({ where }).
FindMany(table, where) ==
  SortByDateDescending(SelectSeq(table, LAMBDA row : Matches(row, where)))

\* skip and take applied to the rows found.
PageOf(rows, skip, take) ==
  SubSeq(rows, skip + 1, IF skip + take < Len(rows) THEN skip + take
                         ELSE Len(rows))

\* Math.ceil(total / limit) for a limit above 0.
Ceil(total, limit) == (total + limit - 1) \div limit

\* parseNaturalQuery on each query text, zone and instant of the model,
\* worked out once.
ParsedQuery ==
  [query \in Queries |->
     [localZone \in Zones |->
        [now \in SearchNows |-> parseNaturalQuery(query, now, localZone)]]]

\* A direct call parseNaturalQuery(query).
CallParse(query, now) ==
  /\ request' = [kind |-> "parse", q |-> query, now |-> now]
  /\ searchFilters' = Some(ParsedQuery[query][zone][now])
  /\ storeFilter' = Undefined
  /\ matched' = <<>>
  /\ response' = NoResponse
  /\ UNCHANGED <<photos, zone, photoVars, authVars>>
  /\ NoClustererCall
  /\ NoTimelineCall

\* router.get('/'): req.user, req.query.q, req.query.page and
\* req.query.limit are the fields of req.  `photos` is the photo table,
\* whose id is a key.
GetSearch(req, now) ==
  /\ DistinctIds(photos)
  /\ request' = [kind |-> "search", req |-> req, now |-> now]
  /\ UNCHANGED <<photos, zone, photoVars, authVars>>
  /\ NoClustererCall
  /\ NoTimelineCall
  /\ IF ~IsSome(req.user)
     THEN /\ response' = [status |-> 401]
          /\ NoSearchCall
     ELSE IF ~IsSome(req.q) \/ Val(req.q) = <<>>
     THEN /\ response' = [status |-> 400]
          /\ NoSearchCall
     ELSE \E parsed \in {ParsedQuery[Val(req.q)][zone][now]} :
          \E where \in {BuildFilters(Val(req.user), parsed)} :
          \E found \in {FindMany(photos, where)} :
          \E page \in {OrElse(parseInt(req.page), Num(1)).val} :
          \E limit \in {OrElse(parseInt(req.limit), Num(20)).val} :
             /\ searchFilters' = Some(parsed)
             /\ storeFilter' = Some(where)
             /\ matched' = found
             /\ response' =
                  [status |-> 200,
                   data |-> PageOf(found, (page - 1) * limit, limit),
                   searchQuery |-> Val(req.q),
                   parsedFilters |-> parsed,
                   pagination |-> [page |-> page, limit |-> limit,
                                   total |-> Len(found),
                                   totalPages |-> Ceil(Len(found), limit)]]

\* ------------------------------------------------- the router of search.ts

\* The three routes and the three functions on one photo table.
Init ==
  /\ photos \in SeqsUpTo(SearchCatalogue, MaxPhotos)
  /\ zone \in Zones
  /\ request = NoRequest
  /\ response = NoResponse
  /\ clusterInput = <<>>
  /\ radiusPassed = Undefined
  /\ radiusKm = Undefined
  /\ clusters = <<>>
  /\ timelineInput = <<>>
  /\ timelineYear = Undefined
  /\ timelineArray = <<>>
  /\ searchFilters = Undefined
  /\ storeFilter = Undefined
  /\ matched = <<>>
  /\ PhotoRoutesAtRest
  /\ AuthStoreAtRest

NextSearch ==
  \/ \E query \in Queries, now \in SearchNows : CallParse(query, now)
  \/ \E req \in SearchRequests, now \in SearchNows : GetSearch(req, now)

Next == NextCluster \/ NextTimeline \/ NextSearch

Spec == Init /\ [][Next]_vars

\* ------------------------------------------------- claims on the clusterer

\* The request served last called the clusterer.
ClustererCalled ==
  \/ request.kind = "direct"
  \/ request.kind = "clusters" /\ response.status = 200 /\ Len(clusterInput) > 0

\* The places <<c, k>> of the returned clusters.
Places == UNION {{<<c, k>> : k \in 1..Len(clusters[c])} : c \in 1..Len(clusters)}

\* The haversine distance of two photos, and the radius of the call.
Apart(p, q) ==
  R * Sqrt(toRad(Val(q.latitude) - Val(p.latitude))
             * toRad(Val(q.latitude) - Val(p.latitude))
           + toRad(Val(q.longitude) - Val(p.longitude))
             * toRad(Val(q.longitude) - Val(p.longitude)))

\* The clusters as a partition of ids: the set of the clusters' id sets.
IdPartition(cs) == {{cs[c][k].id : k \in 1..Len(cs[c])} : c \in 1..Len(cs)}

\* The orderings of a list.
Reorderings(list) ==
  {[i \in 1..Len(list) |-> list[f[i]]] :
     f \in {g \in [1..Len(list) -> 1..Len(list)] :
              \A i, j \in 1..Len(list) : g[i] = g[j] => i = j}}

\* C1: for an input list with pairwise distinct ids the returned clusters
\* partition the input: every input item is at exactly one place of exactly
\* one cluster, the clusters hold nothing else, and no cluster is empty.
C1_Partition ==
  (ClustererCalled /\ DistinctIds(clusterInput)) =>
    /\ \A c \in 1..Len(clusters) : Len(clusters[c]) >= 1
    /\ \A i \in 1..Len(clusterInput) :
         Cardinality({pl \in Places :
                        clusters[pl[1]][pl[2]] = clusterInput[i]}) = 1
    /\ Cardinality(Places) = Len(clusterInput)

\* A direct call split three photos with distinct ids into two clusters.
C1_Witness ==
  /\ request.kind = "direct"
  /\ DistinctIds(clusterInput)
  /\ Len(clusterInput) = 3
  /\ Len(clusters) = 2

\* The first index at which photo p stands in the input.
FirstIndex(p) ==
  CHOOSE i \in 1..Len(clusterInput) :
    /\ clusterInput[i] = p
    /\ \A j \in 1..(i - 1) : clusterInput[j] # p

\* C2: in every returned cluster, element 0 is the seed (of the cluster's
\* members the one that comes first in the input) and every other member
\* lies within radiusKm of it.
C2_SeedRadius ==
  ClustererCalled =>
    \A c \in 1..Len(clusters) : \A k \in 2..Len(clusters[c]) :
      /\ ~Val(radiusKm).nan
      /\ Apart(clusters[c][1], clusters[c][k]) <= Val(radiusKm).val
      /\ DistinctIds(clusterInput) =>
           FirstIndex(clusters[c][1]) < FirstIndex(clusters[c][k])

\* A cluster holds the seed and two members that are within the radius of
\* the seed but further than the radius from each other.
C2_Witness ==
  /\ ClustererCalled
  /\ \E c \in 1..Len(clusters) :
       /\ Len(clusters[c]) = 3
       /\ Apart(clusters[c][2], clusters[c][3]) > Val(radiusKm).val

\* The cluster of the input item at index i, when it is in one.
InCluster(i, c) ==
  \E k \in 1..Len(clusters[c]) : clusters[c][k] = clusterInput[i]

\* C3: the radius test is inclusive.  An item exactly radiusKm from the seed
\* of a cluster is in that cluster unless an earlier cluster took it, and an
\* item other than the seed that is further than radiusKm from the seed is
\* not in that cluster.
C3_Inclusive ==
  (ClustererCalled /\ DistinctIds(clusterInput) /\ ~Val(radiusKm).nan) =>
    \A c \in 1..Len(clusters) : \A i \in 1..Len(clusterInput) :
      /\ Apart(clusters[c][1], clusterInput[i]) = Val(radiusKm).val =>
           \E b \in 1..c : InCluster(i, b)
      /\ (/\ clusterInput[i] # clusters[c][1]
          /\ Apart(clusters[c][1], clusterInput[i]) > Val(radiusKm).val) =>
           ~InCluster(i, c)

\* A cluster has a member that is exactly radiusKm away from its seed, and
\* another cluster was opened by an item further away.
C3_Witness ==
  /\ ClustererCalled
  /\ DistinctIds(clusterInput)
  /\ ~Val(radiusKm).nan
  /\ Val(radiusKm).val > 0
  /\ \E c \in 1..Len(clusters) : \E k \in 2..Len(clusters[c]) :
       Apart(clusters[c][1], clusters[c][k]) = Val(radiusKm).val
  /\ Len(clusters) >= 2

\* Three photos on a line, neighbours 0.885569 km apart, clustered with the
\* default radius in the orders a, b, c and b, a, c.
LineFromEnd ==
  << Photo("a", "u1", Some(0), Some(0), Null, Null, Null),
     Photo("b", "u1", Some(0), Some(8), Null, Null, Null),
     Photo("c", "u1", Some(0), Some(16), Null, Null, Null) >>

LineFromMiddle == <<LineFromEnd[2], LineFromEnd[1], LineFromEnd[3]>>

\* There are a list, a radius and a reordering of the list that give two
\* different partitions of the same ids: the line, from its end ({a, b},
\* {c}) and from its middle ({a, b, c}).
OrderDependent ==
  IdPartition(clusterPhotosByLocation(LineFromEnd, Undefined))
    # IdPartition(clusterPhotosByLocation(LineFromMiddle, Undefined))

\* Two requests in a row that hand the clusterer the same list and the same
\* radius get the same clusters.
SameInputSameClusters ==
  (/\ ClustererCalled
   /\ ClustererCalled'
   /\ clusterInput' = clusterInput
   /\ radiusKm' = radiusKm) => clusters' = clusters

\* C4: the clusterer is deterministic for a fixed input order (the same list
\* and radius give the same clusters, whichever request brings them) but not
\* order-invariant (a reordering of some list changes the partition).
C4_DeterministicNotOrderInvariant ==
  [][OrderDependent /\ SameInputSameClusters]_vars

\* The clusterer ran on a list of which a reordering is clustered into a
\* different partition of the same ids.
C4_Witness ==
  /\ ClustererCalled
  /\ DistinctIds(clusterInput)
  /\ \E other \in Reorderings(clusterInput) :
       IdPartition(clusterPhotosByLocation(other, radiusPassed))
         # IdPartition(clusters)

\* C5 as stated: with no radius the clusterer works with radiusKm = 1, in a
\* direct call and through the route, and a supplied radius (one that reads
\* as a number) reaches the clusterer unchanged.
C5_SuppliedRadiusUnchanged ==
  ClustererCalled =>
    /\ ~IsSome(request.radius) => radiusKm = Some(Num(1 * Scale))
    /\ (request.kind = "direct" /\ IsSome(request.radius)) =>
         radiusKm = request.radius
    /\ (request.kind = "clusters" /\ IsSome(request.radius)
          /\ ~parseFloat(request.radius).nan) =>
         radiusKm = Some(parseFloat(request.radius))

\* C5 as amended: with no radius the clusterer works with radiusKm = 1, in a
\* direct call and through the route; a radius supplied to a direct call is
\* used unchanged; the route passes on a radius parameter that reads as a
\* number other than 0, and replaces one that reads as 0 or as no number by 1.
C5_DefaultRadius ==
  ClustererCalled =>
    /\ ~IsSome(request.radius) => radiusKm = Some(Num(1 * Scale))
    /\ (request.kind = "direct" /\ IsSome(request.radius)) =>
         radiusKm = request.radius
    /\ (request.kind = "clusters" /\ IsSome(request.radius)) =>
         LET read == parseFloat(request.radius)
         IN IF ~read.nan /\ read.val # 0
            THEN radiusKm = Some(read) /\ radiusPassed = Some(read)
            ELSE radiusKm = Some(Num(1 * Scale))

\* The route clustered with radius 1 for a request whose radius parameter
\* reads as 0.
C5_Witness ==
  /\ request.kind = "clusters"
  /\ ClustererCalled
  /\ IsSome(request.radius)
  /\ parseFloat(request.radius) = Num(0)
  /\ radiusKm = Some(Num(1 * Scale))
  /\ Len(clusters) >= 1

\* -------------------------------------------------- claims on the timeline

\* The request served last ran the timeline aggregation to its end.
Aggregated ==
  \/ request.kind = "aggregate" /\ response.status # 500
  \/ request.kind = "timeline" /\ response.status = 200

\* The target year of that request.
TargetYear == Val(timelineYear).val

\* The key of the calendar month (local time) of a dated photo in the target
\* year: the ISO text of the first instant of that month.
MonthKeyOf(photo) ==
  LET civil == CivilFromDays((Val(photo.dateTaken) + zone) \div 24)
  IN toISOString(UtcInstant(TargetYear, civil.month, 1, 0) - zone)

\* The places <<b, k>> of the returned buckets.
BucketPlaces ==
  UNION {{<<b, k>> : k \in 1..Len(timelineArray[b].photos)} :
           b \in 1..Len(timelineArray)}

\* How many places of the input, and of the buckets, hold photo p.
TimesInInput(p) ==
  Cardinality({i \in 1..Len(timelineInput) : timelineInput[i] = p})

TimesInBuckets(p) ==
  Cardinality({pl \in BucketPlaces : timelineArray[pl[1]].photos[pl[2]] = p})

\* C6: every input item that has a date is in exactly one bucket (once for
\* each time it is in the input), the bucket keyed by the first instant of
\* the item's calendar month in the target year; an item without a date is
\* in no bucket; no bucket is empty and no two buckets share a key.
C6_OneBucketPerDatedItem ==
  Aggregated =>
    /\ \A i \in 1..Len(timelineInput) :
         LET p == timelineInput[i]
         IN IF IsSome(p.dateTaken)
            THEN /\ TimesInBuckets(p) = TimesInInput(p)
                 /\ \A pl \in BucketPlaces :
                      timelineArray[pl[1]].photos[pl[2]] = p =>
                        timelineArray[pl[1]].month = MonthKeyOf(p)
            ELSE TimesInBuckets(p) = 0
    /\ \A b \in 1..Len(timelineArray) : Len(timelineArray[b].photos) >= 1
    /\ \A b, c \in 1..Len(timelineArray) :
         timelineArray[b].month = timelineArray[c].month => b = c

\* The aggregation was given an item without a date and, on a server ahead
\* of UTC, an item whose local month is not its UTC month, and returned two
\* buckets.
C6_Witness ==
  /\ request.kind = "aggregate"
  /\ Aggregated
  /\ zone = 2
  /\ \E i \in 1..Len(timelineInput) : ~IsSome(timelineInput[i].dateTaken)
  /\ \E i \in 1..Len(timelineInput) :
       /\ IsSome(timelineInput[i].dateTaken)
       /\ getUTCMonth(Val(timelineInput[i].dateTaken), zone)
            # getMonth(Val(timelineInput[i].dateTaken), zone)
  /\ Len(timelineArray) = 2

\* The photo is dated in [year-01-01, (year+1)-01-01), local time, for the
\* target year.
InTargetYear(photo) ==
  /\ Val(photo.dateTaken) >= UtcInstant(TargetYear, 1, 1, 0) - zone
  /\ Val(photo.dateTaken) < UtcInstant(TargetYear + 1, 1, 1, 0) - zone

\* C7 as stated: no bucket the aggregation returns holds an item dated
\* outside the target year, whatever list the aggregation was given.
C7_NoItemOutsideYear ==
  Aggregated =>
    \A pl \in BucketPlaces : InTargetYear(timelineArray[pl[1]].photos[pl[2]])

\* C7 as amended: no bucket the /timeline route returns holds a photo dated
\* outside the target year, whatever the photo table holds: the store query
\* leaves such photos out before the grouping (which tests no date itself).
C7_RouteExcludesOtherYears ==
  (request.kind = "timeline" /\ response.status = 200) =>
    \A b \in 1..Len(response.data) : \A k \in 1..Len(response.data[b].photos) :
      InTargetYear(response.data[b].photos[k])

\* The route answered with a bucket while the table held a photo of the
\* requesting user dated outside the target year.
C7_Witness ==
  /\ request.kind = "timeline"
  /\ response.status = 200
  /\ Len(response.data) >= 1
  /\ \E i \in 1..Len(photos) :
       /\ photos[i].userId = Val(request.user)
       /\ IsSome(photos[i].dateTaken)
       /\ ~InTargetYear(photos[i])

RECURSIVE SumOfCounts(_, _)
SumOfCounts(buckets, b) ==
  IF b > Len(buckets) THEN 0
  ELSE buckets[b].photoCount + SumOfCounts(buckets, b + 1)

\* C8: in every bucket photoCount is the length of the bucket's photos, and
\* the photoCounts add up to the number of input items that have a date.
C8_PhotoCount ==
  Aggregated =>
    /\ \A b \in 1..Len(timelineArray) :
         timelineArray[b].photoCount = Len(timelineArray[b].photos)
    /\ SumOfCounts(timelineArray, 1) =
         Cardinality({i \in 1..Len(timelineInput) :
                        IsSome(timelineInput[i].dateTaken)})

\* A bucket counts two photos that share one location label, and the input
\* held an item without a date.
C8_Witness ==
  /\ Aggregated
  /\ \E b \in 1..Len(timelineArray) :
       /\ timelineArray[b].photoCount = 2
       /\ Len(timelineArray[b].locations) = 1
  /\ \E i \in 1..Len(timelineInput) : ~IsSome(timelineInput[i].dateTaken)

\* The dated input items of the month with the given key, in input order.
InputOfMonth(key) ==
  SelectSeq(timelineInput,
            LAMBDA p : IsSome(p.dateTaken) /\ MonthKeyOf(p) = key)

\* The first index of the input at which an item of that month stands.
FirstOfMonth(key) ==
  CHOOSE i \in 1..Len(timelineInput) :
    /\ IsSome(timelineInput[i].dateTaken)
    /\ MonthKeyOf(timelineInput[i]) = key
    /\ \A j \in 1..(i - 1) :
         ~(IsSome(timelineInput[j].dateTaken)
           /\ MonthKeyOf(timelineInput[j]) = key)

\* C9: the buckets come in the order in which their first members stand in
\* the input, and the photos of a bucket are its input items in input order.
C9_EncounterOrder ==
  Aggregated =>
    /\ \A b \in 1..Len(timelineArray) :
         timelineArray[b].photos = InputOfMonth(timelineArray[b].month)
    /\ \A b, c \in 1..Len(timelineArray) :
         b < c => FirstOfMonth(timelineArray[b].month)
                    < FirstOfMonth(timelineArray[c].month)

\* The input was not in date order and the bucket of a later month comes
\* before the bucket of an earlier month.
C9_Witness ==
  /\ Aggregated
  /\ Len(timelineArray) >= 2
  /\ Val(timelineArray[1].photos[1].dateTaken)
       > Val(timelineArray[2].photos[1].dateTaken)
  /\ timelineArray[1].month[2] > timelineArray[2].month[2]

\* The non-empty labels of a field of the photos of a bucket.
LabelsOf(bucketPhotos, field) ==
  {Val(bucketPhotos[k][field]) :
     k \in {j \in 1..Len(bucketPhotos) :
              /\ IsSome(bucketPhotos[j][field])
              /\ Val(bucketPhotos[j][field]) # <<>>}}

NoRepeats(labels) ==
  \A i, j \in 1..Len(labels) : labels[i] = labels[j] => i = j

\* C10: in every bucket, locations holds exactly the distinct non-empty
\* location labels of the bucket's photos and countries exactly their
\* distinct non-empty country labels, each label once.
C10_LabelSets ==
  Aggregated =>
    \A b \in 1..Len(timelineArray) :
      /\ Range(timelineArray[b].locations)
           = LabelsOf(timelineArray[b].photos, "location")
      /\ Range(timelineArray[b].countries)
           = LabelsOf(timelineArray[b].photos, "country")
      /\ NoRepeats(timelineArray[b].locations)
      /\ NoRepeats(timelineArray[b].countries)

\* A bucket holds a photo with a location label and one with an empty label
\* and lists the one label, while another bucket lists another label.
C10_Witness ==
  /\ Aggregated
  /\ Len(timelineArray) = 2
  /\ \E b \in 1..2 :
       /\ Len(timelineArray[b].photos) = 2
       /\ Len(timelineArray[b].locations) = 1
       /\ \E k \in 1..2 : timelineArray[b].photos[k].location = Some(<<>>)
       /\ Len(timelineArray[3 - b].locations) = 1
       /\ timelineArray[3 - b].locations # timelineArray[b].locations

\* --------------------------------------------- claims on the three functions

\* The request served last was a direct call of one of the three functions.
DirectCall == request.kind \in {"parse", "direct", "aggregate"}

\* C11: the query parser for any query text, the clusterer for any list and
\* radius, and the timeline aggregation for any list and any value of year
\* (a year that is no number included) return a result and raise no error.
C11_Total == DirectCall => response.status # 500

\* C12: for empty input every component yields an empty result and no
\* error: the parser a predicate without fields for the empty query, the
\* clusterer (and the /clusters route, when the user has no located photo)
\* an empty cluster list for an empty list, the aggregation (and the
\* /timeline route, when no photo of the user lies in the year) an empty
\* bucket list for an empty list.
C12_EmptyInput ==
  /\ (request.kind = "parse" /\ request.q = <<>>) =>
       searchFilters = Some(NoFilters)
  /\ (request.kind = "direct" /\ photos = <<>>) =>
       clusters = <<>> /\ response.status # 500
  /\ (request.kind = "clusters" /\ IsSome(request.user)
        /\ \A i \in 1..Len(photos) :
             photos[i].userId = Val(request.user) => ~HasCoordinates(photos[i]))
       => response = [status |-> 200, data |-> <<>>]
  /\ (request.kind = "aggregate" /\ photos = <<>>) =>
       timelineArray = <<>> /\ response.status # 500
  /\ (request.kind = "timeline" /\ response.status = 200
        /\ timelineInput = <<>>)
       => response.data = <<>>

C12_Witness ==
  /\ request.kind = "parse"
  /\ request.q = <<>>
  /\ searchFilters = Some(NoFilters)

\* ------------------------------------------------- claims on the parser

\* The request served last parsed a query: the text, its predicate, and the
\* calendar year it was served in.
Parsed == IsSome(searchFilters)

QueryServed ==
  IF request.kind = "parse" THEN request.q ELSE Val(request.req.q)

CurrentYear == getFullYear(request.now, zone)

\* Midnight of the first day of month m (1 to 12) of year y, local time.
StartOfMonth(y, m) == UtcInstant(y, m, 1, 0) - zone

\* The window of the predicate is [from, to).
WindowIs(from, to) ==
  /\ Val(searchFilters).dateFrom = Some(from)
  /\ Val(searchFilters).dateTo = Some(to)

\* The queries 'trip to <place> in <20YY>' of the model.
TripQueries ==
  { [q |-> <<"t", "r", "i", "p", " ", "t", "o", " ", "P", "a", "r", "i", "s", " ", "i", "n", " ", "2", "0", "2", "3">>, place |-> Paris, year |-> 2023],
    [q |-> <<"t", "r", "i", "p", " ", "t", "o", " ", "R", "o", "m", "e", " ", "i", "n", " ", "2", "0", "2", "4">>, place |-> Rome, year |-> 2024] }

\* C13: for a query 'trip to <place> in <20YY>' the parser returns dateFrom
\* = the start of year 20YY, dateTo = the start of year 20YY + 1, and a
\* location whose text contains the lower-cased place name.
C13_TripToPlaceInYear ==
  \A trip \in TripQueries :
    (Parsed /\ QueryServed = trip.q) =>
      /\ WindowIs(StartOfMonth(trip.year, 1), StartOfMonth(trip.year + 1, 1))
      /\ IsSome(Val(searchFilters).location)
      /\ includes(Val(Val(searchFilters).location), toLowerCase(trip.place))

\* The month names that stand in the query, and whether a relative phrase
\* does.
MonthsNamed ==
  {m \in 1..12 : includes(toLowerCase(QueryServed), monthNames[m])}

RelativePhrase ==
  \/ includes(toLowerCase(QueryServed), <<"l", "a", "s", "t", " ", "y", "e", "a", "r">>)
  \/ includes(toLowerCase(QueryServed), <<"t", "h", "i", "s", " ", "y", "e", "a", "r">>)

\* The explicit year of the query, or the current year when it has none.
YearMeant ==
  IF IsSome(yearMatch(toLowerCase(QueryServed)))
  THEN parseInt(yearMatch(toLowerCase(QueryServed))).val
  ELSE CurrentYear

\* C14: when the query holds a month name and no relative phrase, the
\* window is that one month, [first day of the month, first day of the
\* following month), in the explicit year if one was found and in the
\* current year otherwise; for December the upper bound is 1 January of the
\* next year.
C14_MonthWindow ==
  (Parsed /\ MonthsNamed # {} /\ ~RelativePhrase) =>
    \E m \in MonthsNamed :
      WindowIs(StartOfMonth(YearMeant, m),
               IF m = 12 THEN StartOfMonth(YearMeant + 1, 1)
               ELSE StartOfMonth(YearMeant, m + 1))

\* 'December 2023' was parsed, in a year that is not 2023: the window is
\* December 2023 and not the year 2023.
C14_Witness ==
  /\ Parsed
  /\ QueryServed = <<"D", "e", "c", "e", "m", "b", "e", "r", " ", "2", "0", "2", "3">>
  /\ CurrentYear # 2023
  /\ WindowIs(StartOfMonth(2023, 12), StartOfMonth(2024, 1))

\* C15: with 'last year' in the query the window is [start of the current
\* year - 1, start of the current year); otherwise, with 'this year', it is
\* [start of the current year, start of the current year + 1); an explicit
\* year or a month name in the query changes nothing in that, and 'last
\* year' wins when both phrases stand in the query.
C15_RelativePhrase ==
  Parsed =>
    IF includes(toLowerCase(QueryServed), <<"l", "a", "s", "t", " ", "y", "e", "a", "r">>)
    THEN WindowIs(StartOfMonth(CurrentYear - 1, 1), StartOfMonth(CurrentYear, 1))
    ELSE includes(toLowerCase(QueryServed), <<"t", "h", "i", "s", " ", "y", "e", "a", "r">>) =>
           WindowIs(StartOfMonth(CurrentYear, 1),
                    StartOfMonth(CurrentYear + 1, 1))

\* Both phrases stand in the query, 'this year' first: the window is last
\* year's.
C15_Witness ==
  /\ Parsed
  /\ QueryServed = <<"t", "h", "i", "s", " ", "y", "e", "a", "r", " ", "o", "r", " ", "l", "a", "s", "t", " ", "y", "e", "a", "r">>
  /\ WindowIs(StartOfMonth(CurrentYear - 1, 1), StartOfMonth(CurrentYear, 1))

\* The vocabulary words that stand in the lower-cased query, by index.
WordsOccurring ==
  {k \in 1..Len(commonTags) : includes(toLowerCase(QueryServed), commonTags[k])}

\* C16: tags is the sub-list of the 17-word vocabulary whose words stand in
\* the lower-cased query, in vocabulary order and without duplicates; with
\* no such word, tags is absent.
C16_Tags ==
  /\ Len(commonTags) = 17
  /\ Parsed =>
       IF WordsOccurring = {} THEN ~IsSome(Val(searchFilters).tags)
       ELSE /\ IsSome(Val(searchFilters).tags)
            /\ LET tags == Val(Val(searchFilters).tags)
               IN /\ Len(tags) = Cardinality(WordsOccurring)
                  /\ \A i \in 1..Len(tags) :
                       \E k \in WordsOccurring :
                         /\ tags[i] = commonTags[k]
                         /\ Cardinality({j \in WordsOccurring : j < k}) = i - 1

\* 'ocean sunset' was parsed: the tags are sunset, then ocean.
C16_Witness ==
  /\ Parsed
  /\ QueryServed = <<"o", "c", "e", "a", "n", " ", "s", "u", "n", "s", "e", "t">>
  /\ Val(searchFilters).tags = Some(<< <<"s", "u", "n", "s", "e", "t">>, <<"o", "c", "e", "a", "n">> >>)

\* The pattern of a location word, word\s+([\w\s]+?)(?:\s+(?:with|in|on|
\* during)|$), matches text from index p with text[g..e-1] as its capture:
\* the word stands at p, blanks follow it up to g, the capture is a
\* non-empty stretch of word characters and blanks, and after it the text
\* ends or blanks and a connector word follow.
Follows(text, word, p, g, e) ==
  /\ StartsAt(text, p, word)
  /\ p + Len(word) < g
  /\ \A x \in (p + Len(word))..(g - 1) : IsSpace(text[x])
  /\ g < e
  /\ \A x \in g..(e - 1) : IsWordChar(text[x]) \/ IsSpace(text[x])
  /\ \/ e = Len(text) + 1
     \/ \E k \in (e + 1)..Len(text) :
          /\ \A x \in e..(k - 1) : IsSpace(text[x])
          /\ \E c \in {<<"w", "i", "t", "h">>, <<"i", "n">>, <<"o", "n">>, <<"d", "u", "r", "i", "n", "g">>} :
               StartsAt(text, k, c)

Positions(text) == 1..(Len(text) + 1)

MatchesFrom(text, word, p) ==
  /\ StartsAt(text, p, word)
  /\ \E g, e \in Positions(text) : Follows(text, word, p, g, e)

MatchesAnywhere(text, word) ==
  \E p \in Positions(text) : MatchesFrom(text, word, p)

\* A connector word stands at index k of text: one of with, in, on, during
\* between word boundaries.
ConnectorWordAt(text, k) ==
  \E c \in {<<"w", "i", "t", "h">>, <<"i", "n">>, <<"o", "n">>, <<"d", "u", "r", "i", "n", "g">>} :
    /\ StartsAt(text, k, c)
    /\ WordBoundary(text, k)
    /\ WordBoundary(text, k + Len(c))

\* The text that follows index `after` up to, and without, the first
\* connector word, or up to the end of the text when none follows.
UpToConnectorWord(text, after) ==
  LET stops == {k \in after..Len(text) : ConnectorWordAt(text, k)}
  IN SubSeq(text, after, IF stops = {} THEN Len(text) ELSE Least(stops) - 1)

\* C17: the location pass tries in, at, from, to, visit, trip to, vacation
\* in, in that order, and uses the first of them whose pattern matches
\* anywhere in the query, wherever it stands; the location is the text that
\* follows it up to, and without, a connector word (with, in, on, during) or
\* the end of the query, trimmed; no later word of the order counts.
C17_LocationPriority ==
  /\ locationWords = << <<"i", "n">>, <<"a", "t">>, <<"f", "r", "o", "m">>, <<"t", "o">>, <<"v", "i", "s", "i", "t">>,
                        <<"t", "r", "i", "p", " ", "t", "o">>, <<"v", "a", "c", "a", "t", "i", "o", "n", " ", "i", "n">> >>
  /\ Parsed =>
       LET text == toLowerCase(QueryServed)
           matching == {w \in 1..Len(locationWords) :
                          MatchesAnywhere(text, locationWords[w])}
       IN IF matching = {} THEN ~IsSome(Val(searchFilters).location)
          ELSE LET word == locationWords[Least(matching)]
                   p == Least({x \in Positions(text) :
                                 MatchesFrom(text, word, x)})
               IN Val(searchFilters).location
                    = Some(trim(UpToConnectorWord(text, p + Len(word))))

\* --------------------------------------------- claims on the search route

\* The request served last was a search that reached the store.
Searched == request.kind = "search" /\ IsSome(storeFilter)

IsMatched(row) == \E i \in 1..Len(matched) : matched[i] = row

\* C18: the 'with my <word>' pass records the word that follows 'with my'
\* as peopleQuery and nothing else; the predicate never holds face groups
\* (people), and the store filter of a search never holds a constraint on
\* faces.
C18_NoFaceGroupConstraint ==
  /\ Parsed =>
       /\ ~IsSome(Val(searchFilters).people)
       /\ IsSome(Val(searchFilters).peopleQuery) =>
            LET text == toLowerCase(QueryServed)
                word == Val(Val(searchFilters).peopleQuery)
            IN /\ Len(word) > 0
               /\ \A x \in 1..Len(word) : IsWordChar(word[x])
               /\ \E p, g \in Positions(text) :
                    /\ StartsAt(text, p, <<"w", "i", "t", "h", " ", "m", "y">>)
                    /\ p + 7 < g
                    /\ \A x \in (p + 7)..(g - 1) : IsSpace(text[x])
                    /\ StartsAt(text, g, word)
  /\ Searched => ~IsSome(Val(storeFilter).faces)

\* A search for 'with my mom' on a table with a photo of the face group
\* "mom": the word is recorded and the filter holds nothing on faces.
C18_Witness ==
  /\ Searched
  /\ QueryServed = <<"w", "i", "t", "h", " ", "m", "y", " ", "m", "o", "m">>
  /\ Val(searchFilters).peopleQuery = Some(<<"m", "o", "m">>)
  /\ ~IsSome(Val(storeFilter).faces)
  /\ \E i \in 1..Len(photos) :
       photos[i].userId = Val(request.req.user) /\ "mom" \in photos[i].faces

\* The row satisfies every constraint of the store filter but the one on
\* dateTaken.
OtherThanDate(row) ==
  Matches(row, [Val(storeFilter) EXCEPT !.dateTaken = Undefined])

\* C19: the window of the predicate is applied to the store closed below
\* and open above: a photo taken at dateFrom is matched by the search and a
\* photo taken at dateTo is not.
C19_HalfOpenWindow ==
  (/\ Searched
   /\ IsSome(Val(searchFilters).dateFrom)
   /\ IsSome(Val(searchFilters).dateTo)) =>
    \A i \in 1..Len(photos) :
      OtherThanDate(photos[i]) =>
        /\ photos[i].dateTaken = Val(searchFilters).dateFrom =>
             IsMatched(photos[i])
        /\ photos[i].dateTaken = Val(searchFilters).dateTo =>
             ~IsMatched(photos[i])

\* C20: when the parser sets no field, the store filter constrains the
\* owner and nothing else, and every photo of the user who asks is matched
\* (the response holds one page of them).
C20_EmptyPredicateMatchesAll ==
  (Searched /\ searchFilters = Some(NoFilters)) =>
    LET user == Val(request.req.user)
    IN /\ storeFilter =
            Some([userId |-> user, dateTaken |-> Undefined, OR |-> Undefined,
                  tags |-> Undefined, aiDescription |-> Undefined,
                  faces |-> Undefined])
       /\ \A i \in 1..Len(photos) :
            photos[i].userId = user <=> IsMatched(photos[i])
       /\ response.status = 200
       /\ response.pagination.total =
            Cardinality({i \in 1..Len(photos) : photos[i].userId = user})

\* A search for 'hi' matched two photos or more, one of them without date,
\* place and description.
C20_Witness ==
  /\ Searched
  /\ QueryServed = <<"h", "i">>
  /\ searchFilters = Some(NoFilters)
  /\ Len(matched) >= 2
  /\ \E i \in 1..Len(matched) :
       /\ ~IsSome(matched[i].dateTaken)
       /\ ~IsSome(matched[i].location)
       /\ ~IsSome(matched[i].aiDescription)

\* ------------------------------------ more claims on the clusterer's route

\* The /clusters route answered with clusters.
ClustersServed ==
  request.kind = "clusters" /\ response.status = 200 /\ Len(clusterInput) > 0

\* The instants of the dated members of a cluster.
DatesOf(cluster) ==
  {Val(cluster[k].dateTaken) :
     k \in {x \in 1..Len(cluster) : IsSome(cluster[x].dateTaken)}}

Greatest(S) == CHOOSE x \in S : \A y \in S : y <= x

\* C21: each serialized cluster takes its label and its coordinates from
\* element 0 of the cluster (the label is that photo's location, or its
\* coordinates when it has none); dateRange.start and dateRange.end are the
\* earliest and the latest dateTaken among the dated members, so that
\* start <= end, and both are the instant of serialization when no member
\* is dated.
C21_SerializedCluster ==
  ClustersServed =>
    /\ Len(response.data) = Len(clusters)
    /\ \A c \in 1..Len(clusters) :
         LET seed == clusters[c][1]
             out == response.data[c]
             dated == DatesOf(clusters[c])
         IN /\ out.latitude = seed.latitude
            /\ out.longitude = seed.longitude
            /\ IF IsSome(seed.location) /\ Val(seed.location) # <<>>
               THEN /\ DOMAIN out.location = {"text"}
                    /\ out.location.text = Val(seed.location)
               ELSE /\ DOMAIN out.location = {"latitude", "longitude"}
                    /\ out.location.latitude = seed.latitude
                    /\ out.location.longitude = seed.longitude
            /\ out.dateRange.start <= out.dateRange.end
            /\ IF dated = {}
               THEN /\ out.dateRange.start = request.now
                    /\ out.dateRange.end = request.now
               ELSE /\ out.dateRange.start = Least(dated)
                    /\ out.dateRange.end = Greatest(dated)

\* The route serialized a cluster whose seed is neither at the place of its
\* second member nor the earliest of its members, and a cluster without a
\* dated member.
C21_Witness ==
  /\ ClustersServed
  /\ \E c, d \in 1..Len(clusters) :
       /\ Len(clusters[c]) >= 2
       /\ clusters[c][1].longitude # clusters[c][2].longitude
       /\ response.data[c].longitude = clusters[c][1].longitude
       /\ IsSome(clusters[c][1].dateTaken)
       /\ response.data[c].dateRange.start < Val(clusters[c][1].dateTaken)
       /\ response.data[c].dateRange.start < response.data[c].dateRange.end
       /\ DatesOf(clusters[d]) = {}
       /\ response.data[d].dateRange.end = request.now

\* The clusterer's test distance <= radiusKm on two photos.
Within(p, q) == ~Val(radiusKm).nan /\ Apart(p, q) <= Val(radiusKm).val

\* C23: the clusters come in the input order of their seeds; in a cluster
\* the seed comes first and the members follow in input order; and every
\* member other than the seed is in the cluster of the earliest seed that
\* lies within radiusKm of it: its own seed is within radiusKm, and no seed
\* of an earlier cluster is.
C23_InputOrder ==
  ClustererCalled =>
    /\ \A c, d \in 1..Len(clusters) :
         c < d => FirstIndex(clusters[c][1]) < FirstIndex(clusters[d][1])
    /\ \A c \in 1..Len(clusters) :
         /\ \A k, l \in 1..Len(clusters[c]) :
              k < l => FirstIndex(clusters[c][k]) < FirstIndex(clusters[c][l])
         /\ \A k \in 2..Len(clusters[c]) :
              /\ Within(clusters[c][1], clusters[c][k])
              /\ \A b \in 1..(c - 1) : ~Within(clusters[b][1], clusters[c][k])

\* A member stays in the cluster of an earlier seed although the seed of a
\* later cluster is nearer to it.
C23_Witness ==
  /\ ClustererCalled
  /\ \E c, d \in 1..Len(clusters) :
       /\ c < d
       /\ \E k \in 2..Len(clusters[c]) :
            Apart(clusters[d][1], clusters[c][k])
              < Apart(clusters[c][1], clusters[c][k])

\* C25: the seeds (element 0) of two distinct returned clusters are more than
\* radiusKm apart: the clusterer's test distance <= radiusKm fails for them.
C25_SeedsApart ==
  ClustererCalled =>
    \A c, d \in 1..Len(clusters) :
      c # d => ~Within(clusters[c][1], clusters[d][1])

\* The clusterer, called with a radius above 0, opened two clusters of which
\* one took a second item in.
C25_Witness ==
  /\ ClustererCalled
  /\ ~Val(radiusKm).nan
  /\ Val(radiusKm).val > 0
  /\ Len(clusters) >= 2
  /\ \E c \in 1..Len(clusters) : Len(clusters[c]) >= 2

\* The ids of the input.
InputIds == {clusterInput[i].id : i \in 1..Len(clusterInput)}

\* The indices at which the input holds an item with this id.
IndicesOf(id) == {i \in 1..Len(clusterInput) : clusterInput[i].id = id}

\* C26 as stated: assignment goes by id.  Of the input items that share an
\* id the first one is at exactly one place of the returned clusters and the
\* later ones are at none, so that the clusters hold as many items as the
\* input has distinct ids.
C26_FirstOccurrenceOnly ==
  ClustererCalled =>
    /\ Cardinality(Places) = Cardinality(InputIds)
    /\ \A id \in InputIds :
         \E pl \in Places :
           /\ clusters[pl[1]][pl[2]] = clusterInput[Least(IndicesOf(id))]
           /\ \A other \in Places :
                clusters[other[1]][other[2]].id = id => other = pl

\* C26 as amended: assignment goes by id.  Of the input items that share an
\* id exactly one is at a place of the returned clusters, at one place, and
\* the others are at none, so that the clusters hold as many items as the
\* input has distinct ids.  The one is the first of them that the scans
\* reach: the first occurrence when it is the seed of its cluster, and
\* otherwise the first occurrence that lies within radiusKm of the seed of
\* its cluster (which may be a later one than the first).
C26_OncePerId ==
  ClustererCalled =>
    /\ Cardinality(Places) = Cardinality(InputIds)
    /\ \A id \in InputIds :
         \E pl \in Places :
           /\ clusters[pl[1]][pl[2]].id = id
           /\ LET reached ==
                    IF pl[2] = 1 THEN IndicesOf(id)
                    ELSE {i \in IndicesOf(id) :
                            Within(clusters[pl[1]][1], clusterInput[i])}
              IN /\ reached # {}
                 /\ clusters[pl[1]][pl[2]] = clusterInput[Least(reached)]
           /\ \A other \in Places :
                clusters[other[1]][other[2]].id = id => other = pl

\* A direct call was given two different items with one id, the second of
\* them near an earlier seed and the first of them far from it, and returned
\* the second and not the first.
C26_Witness ==
  /\ request.kind = "direct"
  /\ \E i, j \in 1..Len(clusterInput) :
       /\ i < j
       /\ clusterInput[i].id = clusterInput[j].id
       /\ clusterInput[i] # clusterInput[j]
       /\ \E pl \in Places : clusters[pl[1]][pl[2]] = clusterInput[j]
       /\ \A pl \in Places : clusters[pl[1]][pl[2]] # clusterInput[i]

\* ------------------------------------------- more claims on the query parser

\* The items of text at the indices of the set kept, in order.
Keep(text, kept) ==
  [k \in 1..Cardinality(kept) |->
     text[CHOOSE i \in kept : Cardinality({j \in kept : j <= i}) = k]]

\* The indices at which the phrase stands in text, case ignored, and of them
\* the occurrences a reader from the left takes: no two of them overlap, and
\* every other occurrence starts inside one of them.
Occurrences(text, phrase) ==
  {p \in 1..Len(text) : StartsAtIgnoringCase(text, p, phrase)}

TakenOccurrences(text, phrase) ==
  CHOOSE taken \in SUBSET Occurrences(text, phrase) :
    /\ \A p, q \in taken : p < q => p + Len(phrase) <= q
    /\ \A p \in Occurrences(text, phrase) \ taken :
         \E q \in taken : q < p /\ p < q + Len(phrase)

\* text without the occurrences of the phrase.
WithoutPhrase(text, phrase) ==
  IF phrase = <<>> THEN text
  ELSE Keep(text, {x \in 1..Len(text) :
                     \A p \in TakenOccurrences(text, phrase) :
                       x < p \/ x >= p + Len(phrase)})

\* text without the occurrences of each phrase of a list, one after the
\* other.
RECURSIVE WithoutPhrases(_, _)
WithoutPhrases(text, phrases) ==
  IF phrases = <<>> THEN text
  ELSE WithoutPhrases(WithoutPhrase(text, Head(phrases)), Tail(phrases))

\* The word of text that holds index x: the longest run of word characters
\* around it.
WordAround(text, x) ==
  SubSeq(text,
         Least({i \in 1..x : \A k \in i..x : IsWordChar(text[k])}),
         Greatest({i \in x..Len(text) : \A k \in x..i : IsWordChar(text[k])}))

\* text without the words that are stop words.
WithoutStopWords(text) ==
  Keep(text, {x \in 1..Len(text) :
                ~(/\ IsWordChar(text[x])
                  /\ toLowerCase(WordAround(text, x)) \in Range(StopWords))})

\* text with every run of blanks between two inked characters made one
\* space, and without the blanks at its ends.
Tidy(text) ==
  LET inked == {x \in 1..Len(text) : ~IsSpace(text[x])}
      kept == inked \cup {x \in 2..Len(text) :
                            /\ IsSpace(text[x])
                            /\ x - 1 \in inked
                            /\ \E y \in inked : y > x}
      squeezed == Keep(text, kept)
  IN [k \in 1..Len(squeezed) |->
        IF IsSpace(squeezed[k]) THEN " " ELSE squeezed[k]]

\* The residual of a query of which the parser captured this location and
\* these tags.
Residual(query, location, tags) ==
  LET phrases == (IF IsSome(location) THEN <<Val(location)>> ELSE <<>>)
                   \o (IF IsSome(tags) THEN Val(tags) ELSE <<>>)
  IN Tidy(WithoutStopWords(WithoutPhrases(query, phrases)))

\* The residual in each case of the model, worked out once: a case is a
\* query text with the location and the tags captured from it.
ResidualOf ==
  [case \in {<<query, ParsedQuery[query][localZone][now].location,
               ParsedQuery[query][localZone][now].tags>> :
               query \in Queries, localZone \in Zones, now \in SearchNows} |->
     Residual(case[1], case[2], case[3])]

\* C24: the residual description is the query in its original case without
\* the occurrences (case ignored) of the captured location phrase and then
\* of each matched tag word, then without the stop words in, at, from, to,
\* with, my, the, and, or, but where they are whole words, with its blanks
\* collapsed and its ends trimmed; it is the description field when it is
\* longer than 2 characters, and otherwise there is no description field.
C24_ResidualDescription ==
  /\ Len(StopWords) = 10
  /\ Parsed =>
       LET case == <<QueryServed, Val(searchFilters).location,
                     Val(searchFilters).tags>>
       IN /\ case \in DOMAIN ResidualOf
          /\ IF Len(ResidualOf[case]) > 2
             THEN Val(searchFilters).description = Some(ResidualOf[case])
             ELSE ~IsSome(Val(searchFilters).description)

\* 'Sunset at Rome with my mom' was parsed: the place rome and the tag
\* sunset were captured, and 'mom' is what is left for the description.
C24_Witness ==
  /\ Parsed
  /\ QueryServed = <<"S", "u", "n", "s", "e", "t", " ", "a", "t", " ", "R", "o", "m", "e", " ", "w", "i", "t", "h", " ", "m", "y", " ", "m", "o", "m">>
  /\ Val(searchFilters).location = Some(<<"r", "o", "m", "e">>)
  /\ Val(searchFilters).tags = Some(<< <<"s", "u", "n", "s", "e", "t">> >>)
  /\ Val(searchFilters).description = Some(<<"m", "o", "m">>)

\* ----------------------------------------------------------- the photo routes

\* An uploaded file as exifr.parse reads it: exif is Undefined when the
\* parsing raises an error or finds nothing.  A date field holds the
\* instant it is read as, NaN when the Date made of it is invalid.
Exif(latitude, longitude, DateTimeOriginal, DateTime, CreateDate) ==
  [latitude |-> latitude, longitude |-> longitude,
   DateTimeOriginal |-> DateTimeOriginal, DateTime |-> DateTime,
   CreateDate |-> CreateDate]

File(originalname, exif) == [originalname |-> originalname, exif |-> exif]

\* The files the upload routes are tried on: one with a place, dated by
\* DateTime alone, one without EXIF data, and one taken on the equator
\* whose DateTimeOriginal cannot be read as a date.
Files ==
  { File("sea.jpg",
         Some(Exif(Some(6), Some(8), Undefined,
                   Some(Num(UtcInstant(2023, 7, 14, 9))), Undefined))),
    File("scan.png", Undefined),
    File("clock.jpg",
         Some(Exif(Some(0), Some(8), Some(NaN), Undefined,
                   Some(Num(UtcInstant(2023, 3, 10, 12)))))) }

\* The ids the store gives to new records and the keys uploadImage makes
\* (uuidv4), by the number of the file among those handed to the storage.
NewIds == <<"n1", "n2", "n3", "n4">>
NewKeys == <<"k1", "k2", "k3", "k4">>

\* ExifExtractor.extractMetadata: the coordinates are kept when both are
\* truthy, the date is that of the first date field present; without EXIF
\* data the basic metadata, and no error in either case.
extractMetadata(file) ==
  IF ~IsSome(file.exif)
  THEN [fileName |-> file.originalname, latitude |-> Undefined,
        longitude |-> Undefined, dateTaken |-> Undefined]
  ELSE LET exifData == Val(file.exif)
           located == /\ IsSome(exifData.latitude)
                      /\ Val(exifData.latitude) # 0
                      /\ IsSome(exifData.longitude)
                      /\ Val(exifData.longitude) # 0
       IN [fileName |-> file.originalname,
           latitude |-> IF located THEN exifData.latitude ELSE Undefined,
           longitude |-> IF located THEN exifData.longitude ELSE Undefined,
           dateTaken |-> IF IsSome(exifData.DateTimeOriginal)
                         THEN exifData.DateTimeOriginal
                         ELSE IF IsSome(exifData.DateTime)
                         THEN exifData.DateTime
                         ELSE exifData.CreateDate]

\* A row of the photo table with the key of its image.
Stored(row, s3Key) == row @@ [s3Key |-> s3Key]

\* prisma.photo.create({ data }): the new row, or Null when the store
\* rejects the data, which it does for an invalid Date.
CreatePhoto(metadata, s3Key, userId, id) ==
  IF IsSome(metadata.dateTaken) /\ Val(metadata.dateTaken).nan
  THEN Null
  ELSE Some(Stored(
         Row(Photo(id, userId, metadata.latitude, metadata.longitude, Null,
                   Null,
                   IF IsSome(metadata.dateTaken)
                   THEN Some(Val(metadata.dateTaken).val) ELSE Null),
             Null, <<>>, Null, {}),
         s3Key))

\* The work on one file, the same in both upload routes: extractMetadata,
\* then StorageService.uploadImage, which puts the image under a new key or
\* throws (`stored` is the outcome of the storage), then the creation of
\* the record.  photo is Null when a step threw; key is the key left in the
\* bucket, if any.
StoreFile(file, userId, id, s3Key, stored) ==
  LET metadata == extractMetadata(file)
  IN IF ~stored
     THEN [photo |-> Null, key |-> Undefined, metadata |-> metadata]
     ELSE [photo |-> CreatePhoto(metadata, s3Key, userId, id),
           key |-> Some(s3Key), metadata |-> metadata]

\* The callback handed to setImmediate, by what it closes over.
Task(photo, metadata) ==
  [photoId |-> photo.id, latitude |-> metadata.latitude,
   longitude |-> metadata.longitude]

\* setImmediate(callback): the callback runs in a later turn of the event
\* loop, after the code that scheduled it has run to its next await or end.
setImmediateDropped(pending, task) == pending

setImmediate(pending, task) == pending \cup {task}

\* What AIService.analyzeImage resolves to (it catches its own errors):
\* the fallback, an analysis with a face, and one whose tags, taken from the
\* model's JSON after Array.isArray alone, are not strings.
Analyses ==
  { [description |-> <<"T", "r", "a", "v", "e", "l", " ", "p", "h", "o", "t", "o">>, tags |-> <<<<"t", "r", "a", "v", "e", "l">>, <<"p", "h", "o", "t", "o">>>>,
     tagsAreStrings |-> TRUE, faces |-> 0],
    [description |-> <<"P", "a", "r", "i", "s", " ", "b", "e", "a", "c", "h">>, tags |-> <<<<"b", "e", "a", "c", "h">>>>,
     tagsAreStrings |-> TRUE, faces |-> 1],
    [description |-> <<"T", "w", "o", " ", "n", "u", "m", "b", "e", "r", "s">>, tags |-> <<>>,
     tagsAreStrings |-> FALSE, faces |-> 1] }

\* What GeocodingService.reverseGeocode resolves to (it catches its own
\* errors): null, or a place, whose country is 'Unknown' when the
\* geocoder names none.
GeoData ==
  { Null,
    Some([location |-> Lima, country |-> <<"U", "n", "k", "n", "o", "w", "n">>, city |-> Lima]) }

HasRow(table, id) == \E i \in 1..Len(table) : table[i].id = id

\* prisma.photo.update({ where: { id }, data: updates }) on a row that is
\* there.
UpdatePhoto(table, id, updates) ==
  [i \in 1..Len(table) |->
     IF table[i].id # id THEN table[i]
     ELSE LET described == [table[i] EXCEPT
                              !.aiDescription = Some(updates.aiDescription),
                              !.tags = updates.tags]
          IN IF ~IsSome(updates.place) THEN described
             ELSE [described EXCEPT
                     !.location = Some(Val(updates.place).location),
                     !.country = Some(Val(updates.place).country),
                     !.city = Some(Val(updates.place).city)]]

\* The body of the callback: the face rows are created first, the place is
\* asked for when both coordinates are truthy, the photo is updated last.
\* prisma.face.create and prisma.photo.update throw when the photo's row is
\* gone, the update also when a tag is not a string; the callback's catch
\* logs the error, and what was written before it stays.
Background(table, faces, task, analysis, geoData) ==
  LET present == HasRow(table, task.photoId)
      withFaces == IF analysis.faces > 0 THEN faces \cup {task.photoId}
                   ELSE faces
      located == /\ IsSome(task.latitude) /\ Val(task.latitude) # 0
                 /\ IsSome(task.longitude) /\ Val(task.longitude) # 0
      updates == [aiDescription |-> analysis.description,
                  tags |-> analysis.tags,
                  place |-> IF located THEN geoData ELSE Null]
  IN IF analysis.faces > 0 /\ ~present
     THEN [threw |-> TRUE, photos |-> table, faceRows |-> faces]
     ELSE IF ~present \/ ~analysis.tagsAreStrings
     THEN [threw |-> TRUE, photos |-> table, faceRows |-> withFaces]
     ELSE [threw |-> FALSE,
           photos |-> UpdatePhoto(table, task.photoId, updates),
           faceRows |-> withFaces]

\* prisma.photo.findFirst({ where: { id, userId } }).
FindFirstOfAnyUser(table, id, userId) ==
  LET found == SelectSeq(table, LAMBDA row : row.id = id)
  IN IF Len(found) = 0 THEN Null ELSE Some(found[1])

FindFirst(table, id, userId) ==
  LET found == SelectSeq(table, LAMBDA row :
                 row.id = id /\ row.userId = userId)
  IN IF Len(found) = 0 THEN Null ELSE Some(found[1])

\* The request calls neither the clusterer nor the timeline reduce nor the
\* parser.
NoSearchRouteCall ==
  /\ NoClustererCall
  /\ NoTimelineCall
  /\ NoSearchCall

\* router.post('/upload'): user is req.user, file is req.file, stored the
\* outcome of the storage.  The steps of the handler are taken as one: what
\* it awaits before the response touches a key and a row no other request
\* knows, and the callback it schedules cannot run before the response is
\* sent.  An error goes to next(error), the 500 response.
PostUpload(user, file, stored) ==
  /\ uploads < MaxUploads
  /\ Len(photos) < MaxPhotos
  /\ request' = [kind |-> "upload", user |-> user, file |-> file,
                  stored |-> stored]
  /\ NoSearchRouteCall
  /\ UNCHANGED <<zone, faceRows, deleting, authVars>>
  /\ IF ~IsSome(file)
     THEN /\ response' = [status |-> 400]
          /\ UNCHANGED <<photos, storage, tasks, uploads>>
     ELSE IF ~IsSome(user)
     THEN /\ response' = [status |-> 401]
          /\ UNCHANGED <<photos, storage, tasks, uploads>>
     ELSE \E done \in {StoreFile(Val(file), Val(user), NewIds[uploads + 1],
                                 NewKeys[uploads + 1], stored)} :
            /\ uploads' = uploads + 1
            /\ storage' = storage \cup Range(done.key)
            /\ IF ~IsSome(done.photo)
               THEN /\ response' = [status |-> 500]
                    /\ UNCHANGED <<photos, tasks>>
               ELSE /\ photos' = Append(photos, Val(done.photo))
                    /\ tasks' = setImmediate(tasks, Task(Val(done.photo),
                                                         done.metadata))
                    /\ response' = [status |-> 201, data |-> Val(done.photo)]

\* req.files.map(async (file) => ...): the work on each file, the n-th
\* file of the request being file number first + n of the storage; an error
\* on a file is caught and makes its result null.
uploadPromisesAllOrNone(files, userId, first, outcome) ==
  LET each == [n \in 1..Len(files) |->
                 StoreFile(files[n], userId, NewIds[first + n],
                           NewKeys[first + n], outcome[n])]
  IN IF \A n \in 1..Len(files) : IsSome(each[n].photo) THEN each
     ELSE [n \in 1..Len(files) |-> [each[n] EXCEPT !.photo = Null]]

uploadPromises(files, userId, first, outcome) ==
  [n \in 1..Len(files) |->
     StoreFile(files[n], userId, NewIds[first + n], NewKeys[first + n],
               outcome[n])]

\* results.filter(photo => photo !== null) on the photos of the results.
successfulUploads(results) ==
  LET kept == SelectSeq(results, LAMBDA done : IsSome(done.photo))
  IN [n \in 1..Len(kept) |-> Val(kept[n].photo)]

\* The callbacks of the files whose record was created.
RECURSIVE ScheduleAll(_, _, _)
ScheduleAll(pending, results, n) ==
  IF n > Len(results) THEN pending
  ELSE ScheduleAll(IF IsSome(results[n].photo)
                   THEN setImmediate(pending, Task(Val(results[n].photo),
                                                   results[n].metadata))
                   ELSE pending,
                   results, n + 1)

\* The orders in which records created concurrently can reach the table.
Interleavings(created) ==
  {[n \in 1..Len(created) |-> created[order[n]]] :
     order \in {f \in [1..Len(created) -> 1..Len(created)] :
                  \A a, b \in 1..Len(created) : f[a] = f[b] => a = b}}

\* router.post('/upload-batch'): files is req.files, outcome[n] the outcome
\* of the storage for the n-th file.  The files are worked on concurrently
\* and the response waits for all of them; the callbacks scheduled are
\* left to later steps.
PostUploadBatch(user, files, outcome) ==
  /\ uploads + Len(files) <= MaxUploads
  /\ Len(photos) + Len(files) <= MaxPhotos
  /\ request' = [kind |-> "batch", user |-> user, files |-> files,
                  outcome |-> outcome]
  /\ NoSearchRouteCall
  /\ UNCHANGED <<zone, faceRows, deleting, authVars>>
  /\ IF Len(files) = 0
     THEN /\ response' = [status |-> 400]
          /\ UNCHANGED <<photos, storage, tasks, uploads>>
     ELSE IF ~IsSome(user)
     THEN /\ response' = [status |-> 401]
          /\ UNCHANGED <<photos, storage, tasks, uploads>>
     ELSE \E results \in {uploadPromises(files, Val(user), uploads,
                                         outcome)} :
          \E created \in Interleavings(successfulUploads(results)) :
            /\ uploads' = uploads + Len(files)
            /\ storage' = storage \cup UNION {Range(results[n].key) :
                                                n \in 1..Len(results)}
            /\ photos' = photos \o created
            /\ tasks' = ScheduleAll(tasks, results, 1)
            /\ response' = [status |-> 201,
                            data |-> successfulUploads(results)]

\* A callback scheduled by an upload runs: analysis is what analyzeImage
\* resolves to, geoData what reverseGeocode does.  Nothing is answered to
\* anyone; `request` records the callback and whether its catch ran.
RunBackground(task, analysis, geoData) ==
  /\ task \in tasks
  /\ \E result \in {Background(photos, faceRows, task, analysis, geoData)} :
       /\ photos' = result.photos
       /\ faceRows' = result.faceRows
       /\ request' = [kind |-> "background", photoId |-> task.photoId,
                       threw |-> result.threw]
  /\ tasks' = tasks \ {task}
  /\ response' = NoResponse
  /\ NoSearchRouteCall
  /\ UNCHANGED <<zone, storage, deleting, uploads, authVars>>

\* The requests GET /photos the list route is tried on.  None carries
\* dateFrom, dateTo or tags.
ListRequests ==
  { [user |-> user, page |-> Undefined, limit |-> Undefined,
     location |-> Undefined, country |-> Undefined, city |-> Undefined] :
      user \in {Null} \cup {Some(u) : u \in Users} }
  \cup
  { [user |-> Some("u1"), page |-> Some(<<"2">>), limit |-> Some(<<"1">>),
     location |-> Undefined, country |-> Undefined, city |-> Undefined],
    [user |-> Some("u1"), page |-> Undefined, limit |-> Undefined,
     location |-> Some(<<"p", "a", "r">>), country |-> Undefined, city |-> Undefined],
    [user |-> Some("u2"), page |-> Undefined, limit |-> Undefined,
     location |-> Undefined, country |-> Some(Norway), city |-> Some(Oslo)],
    [user |-> Some("u1"), page |-> Undefined, limit |-> Undefined,
     location |-> Some(<<>>), country |-> Undefined, city |-> Some(Oslo)] }

\* The row satisfies the `filters` of the list route: userId always,
\* location by contains (insensitive), country and city by equality; an
\* empty parameter is falsy and sets no filter.
MatchesList(row, req) ==
  /\ row.userId = Val(req.user)
  /\ (IsSome(req.location) /\ Val(req.location) # <<>>) =>
       /\ IsSome(row.location)
       /\ ContainsIgnoringCase(Val(row.location), Val(req.location))
  /\ (IsSome(req.country) /\ Val(req.country) # <<>>) =>
       row.country = req.country
  /\ (IsSome(req.city) /\ Val(req.city) # <<>>) => row.city = req.city

\* router.get('/') of photos.ts.
GetPhotos(req) ==
  /\ request' = [kind |-> "list", req |-> req]
  /\ NoSearchRouteCall
  /\ UNCHANGED <<photos, zone, photoVars, authVars>>
  /\ IF ~IsSome(req.user)
     THEN response' = [status |-> 401]
     ELSE \E found \in {SortByDateDescending(
                          SelectSeq(photos,
                                    LAMBDA row : MatchesList(row, req)))} :
          \E page \in {OrElse(parseInt(req.page), Num(1)).val} :
          \E limit \in {OrElse(parseInt(req.limit), Num(20)).val} :
            response' =
              [status |-> 200,
               data |-> PageOf(found, (page - 1) * limit, limit),
               pagination |-> [page |-> page, limit |-> limit,
                               total |-> Len(found),
                               totalPages |-> Ceil(Len(found), limit)]]

\* router.get('/:id'): id is req.params.id.
GetPhoto(user, id) ==
  /\ request' = [kind |-> "get", user |-> user, id |-> id]
  /\ NoSearchRouteCall
  /\ UNCHANGED <<photos, zone, photoVars, authVars>>
  /\ IF ~IsSome(user)
     THEN response' = [status |-> 401]
     ELSE \E photo \in {FindFirst(photos, id, Val(user))} :
            response' = IF ~IsSome(photo) THEN [status |-> 404]
                        ELSE [status |-> 200, data |-> Val(photo)]

\* router.delete('/:id') up to its first await on the storage: handler h
\* takes the request and looks the photo up.  The handler runs on from
\* there in DeleteFromStorage and DeleteRecord, and other requests are
\* served between its steps.
DeleteLookup(h, user, id) ==
  /\ deleting[h].pc = "idle"
  /\ request' = [kind |-> "delete", handler |-> h, user |-> user, id |-> id]
  /\ NoSearchRouteCall
  /\ UNCHANGED <<photos, zone, storage, tasks, faceRows, uploads, authVars>>
  /\ IF ~IsSome(user)
     THEN /\ response' = [status |-> 401]
          /\ UNCHANGED deleting
     ELSE \E photo \in {FindFirst(photos, id, Val(user))} :
            IF ~IsSome(photo)
            THEN /\ response' = [status |-> 404]
                 /\ UNCHANGED deleting
            ELSE /\ response' = NoResponse
                 /\ deleting' = [deleting EXCEPT ![h] =
                                   [pc |-> "found", user |-> Val(user),
                                    id |-> Val(photo).id,
                                    s3Key |-> Val(photo).s3Key]]

\* StorageService.deleteImage(s3Key): the objects of the key are deleted,
\* or the storage fails and the error is logged and not thrown.
deleteImage(bucket, s3Key, deleted) ==
  IF deleted THEN bucket \ {s3Key} ELSE bucket

\* await StorageService.deleteImage(photo.s3Key) in handler h.
DeleteFromStorage(h, deleted) ==
  /\ deleting[h].pc = "found"
  /\ storage' = deleteImage(storage, deleting[h].s3Key, deleted)
  /\ deleting' = [deleting EXCEPT ![h].pc = "storageTried"]
  /\ request' = [kind |-> "deleteImage", handler |-> h,
                  deleted |-> deleted]
  /\ response' = NoResponse
  /\ NoSearchRouteCall
  /\ UNCHANGED <<photos, zone, tasks, faceRows, uploads, authVars>>

\* await prisma.photo.delete({ where: { id: photo.id } }) in handler h and
\* its response: the row goes, with its face rows (cascade); the store
\* throws when there is no row of that id, and the error goes to
\* next(error), the 500 response.
DeleteRecord(h) ==
  /\ deleting[h].pc = "storageTried"
  /\ request' = [kind |-> "deleteRecord", handler |-> h,
                  user |-> deleting[h].user, id |-> deleting[h].id]
  /\ deleting' = [deleting EXCEPT ![h] = Idle]
  /\ NoSearchRouteCall
  /\ UNCHANGED <<zone, storage, tasks, uploads, authVars>>
  /\ IF HasRow(photos, deleting[h].id)
     THEN /\ photos' = SelectSeq(photos,
                                 LAMBDA row : row.id # deleting[h].id)
          /\ faceRows' = faceRows \ {deleting[h].id}
          /\ response' = [status |-> 200]
     ELSE /\ response' = [status |-> 500]
          /\ UNCHANGED <<photos, faceRows>>

\* The ids a request names: of a photo of each user, and one no photo has.
RequestIds == {"p1", "p4", "zz"}

\* The search requests served next to the photo routes.
PhotoSearchRequests ==
  { [user |-> user, q |-> Some(q), page |-> Undefined, limit |-> Undefined] :
      user \in {Null} \cup {Some(u) : u \in Users},
      q \in {<<"P", "a", "r", "i", "s">>} }

\* The rows of the search with the keys of their images.
StoredCatalogue ==
  {Stored(row, "k-" \o row.id) : row \in SearchCatalogue}

Callers == {Null} \cup {Some(u) : u \in Users}

\* The callers of the upload routes.
Uploaders == {Null, Some("u1")}

\* The state the routes of search.ts leave unused and a server at rest: no
\* callback is scheduled and no DELETE request is in flight.
AtRest ==
  /\ request = NoRequest
  /\ response = NoResponse
  /\ clusterInput = <<>>
  /\ radiusPassed = Undefined
  /\ radiusKm = Undefined
  /\ clusters = <<>>
  /\ timelineInput = <<>>
  /\ timelineYear = Undefined
  /\ timelineArray = <<>>
  /\ searchFilters = Undefined
  /\ storeFilter = Undefined
  /\ matched = <<>>
  /\ tasks = {}
  /\ faceRows = {}
  /\ deleting = [h \in 1..MaxInFlight |-> Idle]
  /\ uploads = 0
  /\ AuthStoreAtRest

\* A photo table whose id is a key, the image of every row in the bucket.
InitPhotos ==
  /\ photos \in {table \in SeqsUpTo(StoredCatalogue, MaxPhotos) :
                    DistinctIds(table)}
  /\ storage = {photos[i].s3Key : i \in 1..Len(photos)}
  /\ zone = 0
  /\ AtRest

\* The routes that read the table and the DELETE route, the requests of
\* several users in any order.
NextPhotos ==
  \/ \E req \in ListRequests : GetPhotos(req)
  \/ \E user \in Callers, id \in RequestIds : GetPhoto(user, id)
  \/ \E h \in 1..MaxInFlight, user \in Callers, id \in RequestIds :
       DeleteLookup(h, user, id)
  \/ \E h \in 1..MaxInFlight, deleted \in BOOLEAN :
       DeleteFromStorage(h, deleted)
  \/ \E h \in 1..MaxInFlight : DeleteRecord(h)
  \/ \E req \in PhotoSearchRequests, now \in SearchNows : GetSearch(req, now)
  \/ \E user \in Callers, now \in Nows : GetClusters(user, Undefined, now)
  \/ \E user \in Callers, now \in TimelineNows :
       GetTimeline(user, Some(<<"2", "0", "2", "3">>), now)

SpecPhotos == InitPhotos /\ [][NextPhotos]_vars

\* The photo table with one photo, of a user who uploads nothing.
InitUpload ==
  /\ photos = << CHOOSE row \in StoredCatalogue : row.id = "p4" >>
  /\ storage = {photos[i].s3Key : i \in 1..Len(photos)}
  /\ zone = 0
  /\ AtRest

\* The upload routes, the callbacks they schedule, and the DELETE route
\* asked for the first photo uploaded.
NextUpload ==
  \/ \E user \in Uploaders, file \in {Null} \cup {Some(f) : f \in Files},
        stored \in BOOLEAN :
       PostUpload(user, file, stored)
  \/ \E user \in Uploaders, files \in SeqsUpTo(Files, MaxUploads) :
     \E outcome \in [1..Len(files) -> BOOLEAN] :
       PostUploadBatch(user, files, outcome)
  \/ \E task \in tasks, analysis \in Analyses, geoData \in GeoData :
       RunBackground(task, analysis, geoData)
  \/ \E h \in 1..MaxInFlight, id \in {NewIds[1]} :
       DeleteLookup(h, Some("u1"), id)
  \/ \E h \in 1..MaxInFlight, deleted \in BOOLEAN :
       DeleteFromStorage(h, deleted)
  \/ \E h \in 1..MaxInFlight : DeleteRecord(h)

SpecUpload == InitUpload /\ [][NextUpload]_vars

\* ------------------------------------------------ claims on the photo routes

\* C27: every store query of the search, clusters, timeline, list, get and
\* delete routes is constrained to the authenticated user: the rows a query
\* returns and the photos a response carries are the caller's, and a get or
\* a delete by the id of another user's photo answers 404 and leaves the
\* table, the bucket and the requests in flight as they were.
C27_OwnPhotosOnly ==
  [][ /\ (request'.kind = "search" /\ response'.status = 200) =>
           /\ \A i \in 1..Len(matched') :
                matched'[i].userId = Val(request'.req.user)
           /\ \A i \in 1..Len(response'.data) :
                response'.data[i].userId = Val(request'.req.user)
      /\ (request'.kind = "clusters" /\ response'.status = 200) =>
           /\ \A i \in 1..Len(clusterInput') :
                clusterInput'[i].userId = Val(request'.user)
           /\ \A c \in 1..Len(response'.data) :
                \A m \in 1..Len(response'.data[c].photos) :
                  response'.data[c].photos[m].userId = Val(request'.user)
      /\ (request'.kind = "timeline" /\ response'.status = 200) =>
           /\ \A i \in 1..Len(timelineInput') :
                timelineInput'[i].userId = Val(request'.user)
           /\ \A b \in 1..Len(response'.data) :
                \A m \in 1..Len(response'.data[b].photos) :
                  response'.data[b].photos[m].userId = Val(request'.user)
      /\ (request'.kind = "list" /\ response'.status = 200) =>
           \A i \in 1..Len(response'.data) :
             response'.data[i].userId = Val(request'.req.user)
      /\ (request'.kind = "get" /\ response'.status = 200) =>
           response'.data.userId = Val(request'.user)
      /\ (request'.kind = "delete" /\ response'.status = 0) =>
           /\ deleting'[request'.handler].user = Val(request'.user)
           /\ \E i \in 1..Len(photos) :
                /\ photos[i].id = deleting'[request'.handler].id
                /\ photos[i].s3Key = deleting'[request'.handler].s3Key
                /\ photos[i].userId = Val(request'.user)
      /\ (/\ request'.kind \in {"get", "delete"}
          /\ IsSome(request'.user)
          /\ \E i \in 1..Len(photos) :
               /\ photos[i].id = request'.id
               /\ photos[i].userId # Val(request'.user)) =>
           /\ response'.status = 404
           /\ UNCHANGED <<photos, photoVars>>
    ]_vars

\* A delete by the id of another user's photo was answered 404 while that
\* photo's owner has a delete of it in flight.
C27_Witness ==
  /\ request.kind = "delete"
  /\ IsSome(request.user)
  /\ response.status = 404
  /\ \E i \in 1..Len(photos) :
       /\ photos[i].id = request.id
       /\ photos[i].userId # Val(request.user)
       /\ photos[i].s3Key \in storage
       /\ \E h \in 1..MaxInFlight : deleting[h].id = request.id

\* C28: a delete attempts the storage delete before the database delete and
\* swallows a storage failure: when the lookup finds the caller's photo the
\* handler goes on, its last step comes after the storage delete was tried,
\* deletes the record and answers success; and no record leaves the table
\* in any other step.
C28_DeleteSucceeds ==
  [][ /\ (/\ request'.kind = "delete"
          /\ IsSome(request'.user)
          /\ \E i \in 1..Len(photos) :
               /\ photos[i].id = request'.id
               /\ photos[i].userId = Val(request'.user)) =>
           deleting'[request'.handler].pc = "found"
      /\ request'.kind = "deleteImage" =>
           /\ deleting'[request'.handler].pc = "storageTried"
           /\ photos' = photos
      /\ request'.kind = "deleteRecord" =>
           /\ deleting[request'.handler].pc = "storageTried"
           /\ ~HasRow(photos', request'.id)
           /\ response'.status = 200
      /\ Len(photos') < Len(photos) => request'.kind = "deleteRecord"
    ]_vars

\* C22: the background analysis of an uploaded photo starts only after its
\* record was created and runs apart from the request: a callback is
\* scheduled only in the step of a 201 answer that puts its photo's record
\* in the table, and runs in a later step of its own; the photo of the 201
\* answer of /upload is the record as created, its callback still to run;
\* the callback answers to no one, and when it fails the table is as it
\* was before it, the record included.
C22_BackgroundAfterCreate ==
  [][ /\ \A task \in tasks' \ tasks :
           /\ request'.kind \in {"upload", "batch"}
           /\ response'.status = 201
           /\ ~HasRow(photos, task.photoId)
           /\ HasRow(photos', task.photoId)
      /\ request'.kind = "background" =>
           /\ \E task \in tasks \ tasks' : task.photoId = request'.photoId
           /\ response' = NoResponse
           /\ UNCHANGED <<storage, deleting, uploads>>
           /\ request'.threw => photos' = photos
      /\ (request'.kind = "upload" /\ response'.status = 201) =>
           /\ \E task \in tasks' \ tasks : task.photoId = response'.data.id
           /\ \E i \in 1..Len(photos') : photos'[i] = response'.data
           /\ ~IsSome(response'.data.aiDescription)
           /\ ~IsSome(response'.data.location)
           /\ response'.data.tags = <<>>
    ]_vars

\* The callback of a photo failed and the photo's record is in the table.
C22_Witness ==
  /\ request.kind = "background"
  /\ request.threw
  /\ HasRow(photos, request.photoId)

\* The date of the file, if it has one, can be read.
ReadableDate(file) ==
  \/ ~IsSome(file.exif)
  \/ LET exifData == Val(file.exif)
         dates == exifData.DateTimeOriginal \o exifData.DateTime
                    \o exifData.CreateDate
     IN Len(dates) > 0 => ~dates[1].nan

\* C29: the files of a batch upload are processed independently: the
\* answer is 201 and its data holds, in the order of the files, exactly
\* the records of the files that the storage took and whose record the
\* store accepted, each new in the table with its image in the bucket,
\* whatever happened to the other files; the rows the table had stay.
C29_BatchIndependent ==
  [][ (/\ request'.kind = "batch"
       /\ IsSome(request'.user)
       /\ Len(request'.files) > 0) =>
        LET files == request'.files
            good == {n \in 1..Len(files) :
                       request'.outcome[n] /\ ReadableDate(files[n])}
            data == response'.data
        IN /\ response'.status = 201
           /\ Len(data) = Cardinality(good)
           /\ \A k \in 1..Len(data) :
                LET n == CHOOSE g \in good :
                           Cardinality({f \in good : f <= g}) = k
                IN /\ data[k].s3Key = NewKeys[uploads + n]
                   /\ data[k].s3Key \in storage'
                   /\ data[k].userId = Val(request'.user)
                   /\ ~HasRow(photos, data[k].id)
                   /\ \E i \in 1..Len(photos') : photos'[i] = data[k]
                   /\ \A j \in 1..Len(data) : data[j].id = data[k].id => j = k
           /\ Len(photos') = Len(photos) + Cardinality(good)
           /\ SubSeq(photos', 1, Len(photos)) = photos
    ]_vars

\* A batch of two files whose first file the storage refused answered 201
\* with the record of the second.
C29_Witness ==
  /\ request.kind = "batch"
  /\ IsSome(request.user)
  /\ Len(request.files) = 2
  /\ ~request.outcome[1]
  /\ response.status = 201
  /\ Len(response.data) = 1
  /\ \E i \in 1..Len(photos) : photos[i] = response.data[1]

\* ---------------------------------------------------- the frontend auth store

\* The users and tokens login is called with; a token may be the empty
\* string.
AuthUsers ==
  {[id |-> id, email |-> email, name |-> "Ann"] :
     id \in {"u1", "u2", "u3"}, email \in {"ann@a.example", "ann@b.example"}}

Tokens == {"", "t1", "t2", "t3", "t4", "t5"}

\* partialize: what persist writes under 'auth-storage' at every set.
partialize(state) == [user |-> state.user, token |-> state.token]

\* set(partial) under persist: the fields of partial replace those of the
\* state and the item in localStorage is written again.
Set(state) ==
  /\ authUser' = state.user
  /\ authToken' = state.token
  /\ isLoading' = state.isLoading
  /\ authStorage' = Some(partialize(state))

\* The state of the store as a record.
AuthState == [user |-> authUser, token |-> authToken, isLoading |-> isLoading]

\* Nothing but the store and the item in localStorage changes.
AuthOnly ==
  UNCHANGED <<photos, response, zone, clusterVars, timelineVars, searchVars,
              photoVars>>

\* login: (user, token) => set({ user, token, isLoading: false }).
login(user, token) ==
  /\ Set([user |-> Some(user), token |-> Some(token), isLoading |-> FALSE])
  /\ request' = [kind |-> "login", user |-> user, token |-> token]
  /\ AuthOnly

\* logout: set({ user: null, token: null, isLoading: false }), then
\* localStorage.removeItem('auth-storage').
logoutKeepsToken ==
  /\ authUser' = Null
  /\ UNCHANGED authToken
  /\ isLoading' = FALSE
  /\ authStorage' = Undefined
  /\ request' = [kind |-> "logout"]
  /\ AuthOnly

logout ==
  /\ authUser' = Null
  /\ authToken' = Null
  /\ isLoading' = FALSE
  /\ authStorage' = Undefined
  /\ request' = [kind |-> "logout"]
  /\ AuthOnly

\* setLoading: (isLoading) => set({ isLoading }).
setLoading(loading) ==
  /\ Set([AuthState EXCEPT !.isLoading = loading])
  /\ request' = [kind |-> "setLoading", loading |-> loading]
  /\ AuthOnly

\* The store as created: user and token null, isLoading false, nothing
\* persisted; no server state.
InitAuth ==
  /\ photos = <<>>
  /\ storage = {}
  /\ zone = 0
  /\ AtRest

NextAuth ==
  \/ \E user \in AuthUsers, token \in Tokens : login(user, token)
  \/ logout
  \/ \E loading \in BOOLEAN : setLoading(loading)

SpecAuth == InitAuth /\ [][NextAuth]_vars

\* ------------------------------------------------- claims on the auth store

\* C30: after any sequence of login, logout and setLoading calls, user is
\* null if and only if token is null; login sets both to its arguments,
\* logout clears both, both leave isLoading false, and setLoading sets
\* isLoading and leaves user and token as they were.
C30_UserIffToken ==
  [][ /\ (authUser' = Null) <=> (authToken' = Null)
      /\ request'.kind = "login" =>
           /\ authUser' = Some(request'.user)
           /\ authToken' = Some(request'.token)
           /\ isLoading' = FALSE
      /\ request'.kind = "logout" =>
           /\ authUser' = Null
           /\ authToken' = Null
           /\ isLoading' = FALSE
      /\ request'.kind = "setLoading" =>
           /\ isLoading' = request'.loading
           /\ UNCHANGED <<authUser, authToken>>
    ]_vars

\* setLoading(true) was called on a store that holds a user and a token.
C30_Witness ==
  /\ request.kind = "setLoading"
  /\ isLoading
  /\ IsSome(authUser)
  /\ IsSome(authToken)

====
